---- MODULE Spec2Model ----
(***************************************************************************)
(* Model of docmost-mcp: the ProseMirror-to-Markdown converter             *)
(* (lib/markdown-converter.ts), DocmostClient.getPage, which calls it and  *)
(* resolves the subpages placeholder, and the DocmostClient operations     *)
(* that talk to the Docmost API (paginateAll, updatePage).                 *)
(*                                                                         *)
(* JavaScript strings are TLA+ strings (sequences of characters): \o is    *)
(* concatenation, SubSeq(s, i, i) the i-th character.  A document node is  *)
(* a record holding only the fields the JSON object has, so an absent      *)
(* field is a field name missing from the record's DOMAIN.  The emoji of   *)
(* the source's string literals are written as ASCII shortcodes            *)
(* (":bookmark_tabs:"), one per emoji, and the backtick, which a TLA+      *)
(* string literal cannot hold, as the character Backtick.                  *)
(***************************************************************************)
EXTENDS Integers, Sequences, FiniteSets, TLC

VARIABLES
  input,      \* the tree handed to the converter (resultData.content in getPage)
  pc,         \* position of the call in progress
  output,     \* what convertProseMirrorToMarkdown returned to a direct caller
  content,    \* getPage's local content (Markdown text)
  subpages,   \* getPage's local subpages
  pageResult, \* the data object getPage returned
  token,      \* DocmostClient.token (Null until a login succeeded)
  requests,   \* the API requests the client has issued, in order
  responses,  \* the response bodies the server has delivered, in order
  locals,     \* the local variables of the client operation in progress
  result      \* what the client operation returned

vars ==
  <<input, pc, output, content, subpages, pageResult,
    token, requests, responses, locals, result>>

\* The variables of the converter and of getPage.
converterVars == <<input, output, content, subpages, pageResult>>

\* The variables of the API client.
clientVars == <<token, requests, responses, locals, result>>

\* JSON null / undefined standing where an object is expected.
Null == [null |-> TRUE]

\* No value yet (the call has not returned one).
NoValue == [none |-> TRUE]

--------------------------------------------------------------------------
(* JavaScript string primitives used by the converter and by getPage.      *)

Char(s, i) == SubSeq(s, i, i)

\* The character U+0060 of the source's literals (code spans and fences).
Backtick == "^"

\* Array.prototype.join on an array of strings.
RECURSIVE join(_, _)
join(parts, sep) ==
  IF Len(parts) = 0 THEN ""
  ELSE IF Len(parts) = 1 THEN parts[1]
  ELSE parts[1] \o sep \o join(Tail(parts), sep)

\* String.prototype.repeat for a count >= 0 (a negative count raises RangeError).
RECURSIVE repeat(_, _)
repeat(s, n) == IF n <= 0 THEN "" ELSE s \o repeat(s, n - 1)

\* The characters String.prototype.trim removes (those the inputs can hold).
WhiteSpace == {" ", "\n", "\t", "\r"}

RECURSIVE trimStart(_)
trimStart(s) ==
  IF Len(s) > 0 /\ Char(s, 1) \in WhiteSpace THEN trimStart(Tail(s)) ELSE s

RECURSIVE trimEnd(_)
trimEnd(s) ==
  IF Len(s) > 0 /\ Char(s, Len(s)) \in WhiteSpace
  THEN trimEnd(SubSeq(s, 1, Len(s) - 1))
  ELSE s

\* String.prototype.trim
trim(s) == trimEnd(trimStart(s))

\* String.prototype.toUpperCase on one character.
UpperChar(c) ==
  CASE c = "a" -> "A" [] c = "b" -> "B" [] c = "c" -> "C" [] c = "d" -> "D"
    [] c = "e" -> "E" [] c = "f" -> "F" [] c = "g" -> "G" [] c = "h" -> "H"
    [] c = "i" -> "I" [] c = "j" -> "J" [] c = "k" -> "K" [] c = "l" -> "L"
    [] c = "m" -> "M" [] c = "n" -> "N" [] c = "o" -> "O" [] c = "p" -> "P"
    [] c = "q" -> "Q" [] c = "r" -> "R" [] c = "s" -> "S" [] c = "t" -> "T"
    [] c = "u" -> "U" [] c = "v" -> "V" [] c = "w" -> "W" [] c = "x" -> "X"
    [] c = "y" -> "Y" [] c = "z" -> "Z" [] OTHER -> c

\* String.prototype.toUpperCase
RECURSIVE toUpperCase(_)
toUpperCase(s) ==
  IF Len(s) = 0 THEN "" ELSE UpperChar(Char(s, 1)) \o toUpperCase(Tail(s))

\* A replace that leaves every newline in place.
replaceNewlinesNone(s, by) == s

\* s.replace(/\n/g, by): every newline replaced.
RECURSIVE replaceNewlines(_, _)
replaceNewlines(s, by) ==
  IF Len(s) = 0 THEN ""
  ELSE (IF Char(s, 1) = "\n" THEN by ELSE Char(s, 1))
       \o replaceNewlines(Tail(s), by)

\* s.startsWith(pat)
startsWith(s, pat) == Len(pat) <= Len(s) /\ SubSeq(s, 1, Len(pat)) = pat

\* s.indexOf(pat), 1-based; 0 when pat does not occur.
RECURSIVE indexFrom(_, _, _)
indexFrom(s, pat, i) ==
  IF i + Len(pat) - 1 > Len(s) THEN 0
  ELSE IF SubSeq(s, i, i + Len(pat) - 1) = pat THEN i
  ELSE indexFrom(s, pat, i + 1)

indexOf(s, pat) == indexFrom(s, pat, 1)

\* String.prototype.includes
includes(s, pat) == indexOf(s, pat) > 0

\* Number to decimal string, as a template literal formats it.
Digits == <<"0", "1", "2", "3", "4", "5", "6", "7", "8", "9">>

RECURSIVE numberToString(_)
numberToString(n) ==
  IF n < 10 THEN Digits[n + 1]
  ELSE numberToString(n \div 10) \o Digits[(n % 10) + 1]

--------------------------------------------------------------------------
(* lib/markdown-converter.ts                                               *)

\* node.type; a node without the field has type undefined, which matches no case.
typeOf(node) == IF "type" \in DOMAIN node THEN node.type ELSE "undefined"

\* node.content || []
contentOf(node) == IF "content" \in DOMAIN node THEN node.content ELSE <<>>

\* node.attrs?.[k] is present (not undefined).
HasAttr(node, k) == "attrs" \in DOMAIN node /\ k \in DOMAIN node.attrs

\* node.attrs?.[k] || default, for a string attribute ("" is falsy).
StrAttr(node, k, default) ==
  IF HasAttr(node, k) /\ node.attrs[k] # "" THEN node.attrs[k] ELSE default

\* A level that defaults to 2.
levelOfDefaultTwo(node) ==
  IF HasAttr(node, "level") /\ node.attrs.level # 0 THEN node.attrs.level ELSE 2

\* node.attrs?.level || 1 (0 is falsy).
levelOf(node) ==
  IF HasAttr(node, "level") /\ node.attrs.level # 0 THEN node.attrs.level ELSE 1

\* node.attrs?.checked || false
checkedOf(node) == HasAttr(node, "checked") /\ node.attrs.checked

\* node.attrs?.type || "info" of a callout.  The attribute is [str |-> s] when
\* the JSON value is a string and [num |-> n] when it is a number.
calloutTypeOf(node) ==
  IF ~HasAttr(node, "type") THEN [str |-> "info"]
  ELSE IF "str" \in DOMAIN node.attrs.type
       THEN (IF node.attrs.type.str = "" THEN [str |-> "info"] ELSE node.attrs.type)
       ELSE (IF node.attrs.type.num = 0 THEN [str |-> "info"] ELSE node.attrs.type)

\* A mark application that wraps the text whatever the kind of the mark.
applyMarkAlwaysBold(textContent, mark) == "**" \o textContent \o "**"

\* One iteration of the loop over node.marks: the switch on mark.type.
applyMark(textContent, mark) ==
  LET kind == typeOf(mark) IN
  CASE kind = "bold" -> "**" \o textContent \o "**"
    [] kind = "italic" -> "*" \o textContent \o "*"
    [] kind = "code" -> Backtick \o textContent \o Backtick
    [] kind = "link" ->
         "[" \o textContent \o "](" \o StrAttr(mark, "href", "") \o ")"
    [] kind = "strike" -> "~~" \o textContent \o "~~"
    [] kind = "underline" -> "<u>" \o textContent \o "</u>"
    [] kind = "subscript" -> "<sub>" \o textContent \o "</sub>"
    [] kind = "superscript" -> "<sup>" \o textContent \o "</sup>"
    [] kind = "highlight" ->
         "<mark style=\"background-color: " \o StrAttr(mark, "color", "yellow")
           \o "\">" \o textContent \o "</mark>"
    [] kind = "textStyle" ->
         IF StrAttr(mark, "color", "") # ""
         THEN "<span style=\"color: " \o mark.attrs.color \o "\">"
                \o textContent \o "</span>"
         ELSE textContent
    [] OTHER -> textContent

\* applyMarks walking the marks from the last to the first.
RECURSIVE applyMarksReversed(_, _, _)
applyMarksReversed(textContent, marks, i) ==
  IF i > Len(marks) THEN textContent
  ELSE applyMarksReversed(applyMark(textContent, marks[Len(marks) + 1 - i]),
                          marks, i + 1)

\* for (const mark of node.marks) { ... }: the marks from index i on, in order.
RECURSIVE applyMarks(_, _, _)
applyMarks(textContent, marks, i) ==
  IF i > Len(marks) THEN textContent
  ELSE applyMarks(applyMark(textContent, marks[i]), marks, i + 1)

\* case "text"
processText(node) ==
  LET textContent == IF "text" \in DOMAIN node THEN node.text ELSE "" IN
  IF "marks" \in DOMAIN node THEN applyMarks(textContent, node.marks, 1)
  ELSE textContent

RECURSIVE processNode(_), processListItem(_, _), processTaskItem(_)

\* case "blockquote"
blockquote(nodeContent) ==
  join([i \in 1..Len(nodeContent) |-> "> " \o processNode(nodeContent[i])], "\n")

\* case "bulletList"
bulletList(nodeContent) ==
  join([i \in 1..Len(nodeContent) |-> processListItem(nodeContent[i], "-")], "\n")

\* case "orderedList"
orderedList(nodeContent) ==
  join([i \in 1..Len(nodeContent) |->
          processListItem(nodeContent[i], numberToString(i) \o ".")], "\n")

\* case "taskList"
taskList(nodeContent) ==
  join([i \in 1..Len(nodeContent) |-> processTaskItem(nodeContent[i])], "\n")

\* table emitting a header-separator line after its first row.
tableWithSeparator(children) ==
  IF Len(children) = 0 THEN ""
  ELSE join(<<children[1], "| --- |">> \o Tail(children), "\n")

\* case "table"
table(children) == join(children, "\n")

\* case "tableRow"
tableRow(children) == "| " \o join(children, " | ") \o " |"

\* case "tableCell" / "tableHeader"
tableCell(children) == join(children, "")

\* details concatenating its children with nothing between them.
detailsVerbatim(children) == join(children, "")

\* case "details"
details(children) == join(children, "\n")

\* fallback joining the children with a newline.
fallbackNewline(children) == join(children, "\n")

\* default: "Fallback: process children"
fallback(children) == join(children, "")

processNode(node) ==
  LET type == typeOf(node)
      nodeContent == contentOf(node)
      children == [i \in 1..Len(nodeContent) |-> processNode(nodeContent[i])]
  IN
  CASE type = "doc" -> join(children, "\n\n")
    [] type = "paragraph" ->
         LET text == join(children, "")
             align == StrAttr(node, "textAlign", "")
         IN IF align # "" /\ align # "left"
            THEN "<div align=\"" \o align \o "\">" \o text \o "</div>"
            ELSE text
    [] type = "heading" ->
         repeat("#", levelOf(node)) \o " " \o join(children, "")
    [] type = "text" -> processText(node)
    [] type = "codeBlock" ->
         Backtick \o Backtick \o Backtick \o StrAttr(node, "language", "")
           \o "\n" \o join(children, "") \o "\n" \o Backtick \o Backtick \o Backtick
    [] type = "bulletList" -> bulletList(nodeContent)
    [] type = "orderedList" -> orderedList(nodeContent)
    [] type = "taskList" -> taskList(nodeContent)
    [] type = "taskItem" ->
         "- " \o (IF checkedOf(node) THEN "[x]" ELSE "[ ]") \o " "
           \o join(children, "\n")
    [] type = "listItem" -> join(children, "\n")
    [] type = "blockquote" -> blockquote(nodeContent)
    [] type = "horizontalRule" -> "---"
    [] type = "hardBreak" -> "\n"
    [] type = "image" ->
         "![" \o StrAttr(node, "alt", "") \o "](" \o StrAttr(node, "src", "")
           \o ")"
           \o (IF StrAttr(node, "caption", "") # ""
               THEN "\n*" \o node.attrs.caption \o "*" ELSE "")
    [] type = "video" -> ":movie_camera: [Video](" \o StrAttr(node, "src", "") \o ")"
    [] type = "youtube" ->
         ":tv: [YouTube Video](" \o StrAttr(node, "src", "") \o ")"
    [] type = "table" -> table(children)
    [] type = "tableRow" -> tableRow(children)
    [] type \in {"tableCell", "tableHeader"} -> tableCell(children)
    [] type = "callout" ->
         "> **" \o toUpperCase(calloutTypeOf(node).str) \o "**\n> "
           \o replaceNewlines(join(children, "\n"), "\n> ")
    [] type = "details" -> details(children)
    [] type = "detailsSummary" ->
         "<details>\n<summary>" \o join(children, "") \o "</summary>\n"
    [] type = "detailsContent" -> join(children, "\n") \o "\n</details>"
    [] type = "mathInline" -> "$" \o StrAttr(node, "latex", "") \o "$"
    [] type = "mathBlock" -> "$$\n" \o StrAttr(node, "latex", "") \o "\n$$"
    [] type = "mention" ->
         "@" \o StrAttr(node, "label", StrAttr(node, "id", ""))
    [] type = "attachment" ->
         ":paperclip: [" \o StrAttr(node, "fileName", "attachment") \o "]("
           \o StrAttr(node, "src", "") \o ")"
    [] type = "drawio" -> ":bar_chart: [Draw.io Diagram]"
    [] type = "excalidraw" -> ":pencil2: [Excalidraw Drawing]"
    [] type = "embed" ->
         ":link: [Embedded Content](" \o StrAttr(node, "src", "") \o ")"
    [] type = "subpages" -> ":bookmark_tabs: [Subpages List]"
    [] OTHER -> fallback(children)

processListItem(item, prefix) ==
  LET itemContent == contentOf(item)
      lines == [i \in 1..Len(itemContent) |-> processNode(itemContent[i])]
  IN join([i \in 1..Len(lines) |->
             IF i = 1 THEN prefix \o " " \o lines[i] ELSE "  " \o lines[i]],
          "\n")

processTaskItem(item) ==
  LET checkbox == IF checkedOf(item) THEN "[x]" ELSE "[ ]"
      itemContent == contentOf(item)
      text == join([i \in 1..Len(itemContent) |-> processNode(itemContent[i])], "")
  IN "- " \o checkbox \o " " \o text

\* The node types whose case never reads node.content.
LeafTypes ==
  {"text", "horizontalRule", "hardBreak", "image", "video", "youtube",
   "mathInline", "mathBlock", "mention", "attachment", "drawio", "excalidraw",
   "embed", "subpages"}

\* processNode(node) raises instead of returning: a null node or mark
\* (TypeError reading .type / .content / .attrs of null), a negative heading
\* level (RangeError of String.prototype.repeat), a callout type that is not a
\* string (TypeError: toUpperCase is not a function), or a child that raises.
RECURSIVE Throws(_)
Throws(node) ==
  IF node = Null THEN TRUE
  ELSE
    LET type == typeOf(node)
        nodeContent == contentOf(node)
    IN
    \/ type = "heading" /\ levelOf(node) < 0
    \/ type = "callout" /\ "num" \in DOMAIN calloutTypeOf(node)
    \/ type = "text" /\ "marks" \in DOMAIN node
         /\ \E i \in 1..Len(node.marks) : node.marks[i] = Null
    \/ type \notin LeafTypes /\ \E i \in 1..Len(nodeContent) : Throws(nodeContent[i])

\* convertProseMirrorToMarkdown trimming the start of the rendering only.
convertTrimStartOnly(root) ==
  IF root = Null \/ "content" \notin DOMAIN root THEN ""
  ELSE trimStart(processNode(root))

\* export function convertProseMirrorToMarkdown(content): the returned string.
convertProseMirrorToMarkdown(root) ==
  IF root = Null \/ "content" \notin DOMAIN root THEN ""
  ELSE trim(processNode(root))

\* convertProseMirrorToMarkdown(content) raises.
convertThrows(root) ==
  root # Null /\ "content" \in DOMAIN root /\ Throws(root)

--------------------------------------------------------------------------
(* DocmostClient.getPage and filterPage                                    *)

\* The placeholder getPage looks for.
SubpagesToken == "{{SUBPAGES}}"

\* The replacement patterns String.prototype.replace expands in its second
\* argument: "$$" inserts "$" and "$&" the matched substring.  (The inputs
\* hold no other "$" sequence.)
RECURSIVE expandReplacement(_, _)
expandReplacement(by, matched) ==
  IF Len(by) = 0 THEN ""
  ELSE IF startsWith(by, "$$") THEN "$" \o expandReplacement(SubSeq(by, 3, Len(by)), matched)
  ELSE IF startsWith(by, "$&")
       THEN matched \o expandReplacement(SubSeq(by, 3, Len(by)), matched)
  ELSE Char(by, 1) \o expandReplacement(Tail(by), matched)

\* s.replace(pat, by) with a string pattern: the first occurrence only.
replace(s, pat, by) ==
  LET i == indexOf(s, pat) IN
  IF i = 0 THEN s
  ELSE SubSeq(s, 1, i - 1) \o expandReplacement(by, pat)
         \o SubSeq(s, i + Len(pat), Len(s))

\* subpages.map((p) => "- [" + p.title + "](page:" + p.id + ")")
subpageEntry(p) == "- [" \o p.title \o "](page:" \o p.id \o ")"

subpageList(pages) ==
  join([i \in 1..Len(pages) |-> subpageEntry(pages[i])], "\n")

\* "Resolve subpages if the placeholder exists"
resolveSubpages(text, pages) ==
  IF text # "" /\ includes(text, SubpagesToken)
  THEN IF Len(pages) > 0
       THEN replace(text, SubpagesToken, "### Subpages\n" \o subpageList(pages))
       ELSE replace(text, SubpagesToken, "")
  ELSE text

\* filterPage(page, content, subpages): the content and subpages fields.  (The
\* page's own metadata fields are copied through and are not modelled.)
filterPage(text, pages) ==
  IF Len(pages) > 0
  THEN [content |-> text,
        subpages |-> [i \in 1..Len(pages) |-> [id |-> pages[i].id, title |-> pages[i].title]]]
  ELSE [content |-> text]

--------------------------------------------------------------------------
(* The inputs: document trees and child-page lists.                        *)

\* Longest mark sequence of a text leaf.
MaxMarks == 2

\* Longest content sequence drawn from a set of children.
MaxChildren == 2

\* Most child pages the sidebar request returns.
MaxSubpages == 2

SeqsUpTo(S, n) == UNION {[1..k -> S] : k \in 0..n}

NonEmptySeqsUpTo(S, n) == UNION {[1..k -> S] : k \in 1..n}

Text(t) == [type |-> "text", text |-> t]

Marked(t, ms) == [type |-> "text", text |-> t, marks |-> ms]

Node(type, kids) == [type |-> type, content |-> kids]

Leaf(type) == [type |-> type]

Para(t) == Node("paragraph", <<Text(t)>>)

\* A paragraph of two lines: "A", a hard break, "B".
ParaAB == Node("paragraph", <<Text("A"), Leaf("hardBreak"), Text("B")>>)

Item(t) == Node("listItem", <<Para(t)>>)

\* Mark descriptors, with and without attrs; "comment" is a kind the converter
\* does not know.
Marks ==
  {[type |-> "bold"], [type |-> "italic"], [type |-> "code"],
   [type |-> "underline"],
   [type |-> "link", attrs |-> [href |-> "u"]],
   [type |-> "highlight"],
   [type |-> "textStyle", attrs |-> [color |-> "red"]],
   [type |-> "textStyle"],
   [type |-> "comment"]}

MarkedTexts ==
  {Marked("x", ms) : ms \in SeqsUpTo(Marks, MaxMarks)}
    \cup {Text("x"), Leaf("text"), Marked("x", <<Null>>),
          Marked("x", <<[type |-> "bold"], Null>>),
          Marked("x", <<[type |-> "textStyle", attrs |-> [fontSize |-> "12"]]>>),
          Marked("x", <<[type |-> "textStyle", attrs |-> [fontSize |-> "12"]],
                        [type |-> "italic"]>>)}

Inlines ==
  {Text("A"), Text("B"), Text(" "), Leaf("hardBreak"), Text(SubpagesToken)}

Paragraphs ==
  {Node("paragraph", c) : c \in SeqsUpTo(Inlines, MaxChildren)}
    \cup {Leaf("paragraph"), ParaAB,
          [type |-> "paragraph", attrs |-> [textAlign |-> "center"],
           content |-> <<Text("A")>>]}

Headings ==
  {[type |-> "heading", attrs |-> [level |-> n], content |-> <<Text("A")>>] :
     n \in {-1, 0, 1, 2, 3, 4, 5, 6, 7}}
    \cup {Node("heading", <<Text("A")>>), Leaf("heading"),
          Node("heading", <<Text("A"), Marked("B", <<[type |-> "bold"]>>)>>),
          [type |-> "heading", attrs |-> [id |-> "h"], content |-> <<Text("B")>>]}

\* Blocks placed inside list items, block quotes and unknown nodes.
InnerBlocks ==
  {Para("A"), ParaAB, Node("bulletList", <<Item("A"), Item("B")>>),
   [type |-> "codeBlock", attrs |-> [language |-> "js"],
    content |-> <<Text("A\nB")>>]}

ListItems ==
  {Node("listItem", c) : c \in SeqsUpTo(InnerBlocks, MaxChildren)}
    \cup {Leaf("listItem")}

SimpleItems == {Item("A"), Item("B"), Leaf("listItem"), Null}

Lists ==
  {Node(lt, <<it>>) : lt \in {"bulletList", "orderedList"}, it \in ListItems}
    \cup {Node(lt, c) : lt \in {"bulletList", "orderedList"},
                        c \in SeqsUpTo(SimpleItems, MaxChildren)}
    \cup {Leaf("bulletList"),
          [type |-> "orderedList", attrs |-> [start |-> 5],
           content |-> <<Item("A"), Item("B")>>]}

TaskItem(checked, kids) ==
  [type |-> "taskItem", attrs |-> [checked |-> checked], content |-> kids]

TaskItems ==
  {TaskItem(b, <<blk>>) : b \in BOOLEAN, blk \in InnerBlocks \cup {Para("Done")}}
    \cup {TaskItem(b, <<Para("A"), Para("B")>>) : b \in BOOLEAN}
    \cup {Node("taskItem", <<Para("A")>>), Leaf("taskItem"),
          [type |-> "taskItem", attrs |-> [checked |-> TRUE]]}

SimpleTaskItems ==
  {TaskItem(TRUE, <<Para("A")>>), TaskItem(FALSE, <<Para("B")>>),
   Node("taskItem", <<Para("A")>>), Null}

TaskLists ==
  {Node("taskList", <<it>>) : it \in TaskItems}
    \cup {Node("taskList", c) : c \in SeqsUpTo(SimpleTaskItems, MaxChildren)}

Blockquotes ==
  {Node("blockquote", c) : c \in SeqsUpTo(InnerBlocks, MaxChildren)}
    \cup {Leaf("blockquote")}

\* Nodes of a type the converter has no case for, and nodes with no type.
UnknownKids == {Text("x"), Text("y"), Para("A"), Leaf("hardBreak"), Leaf("subpages")}

Unknowns ==
  {Node("fancyWidget", c) : c \in SeqsUpTo(UnknownKids, MaxChildren)}
    \cup {Leaf("fancyWidget"), [content |-> <<Text("x")>>],
          Node("fancyWidget", <<Node("fancyWidget", <<Text("x")>>)>>),
          Node("fancyWidget", <<Null>>)}

Callouts ==
  {Node("callout", <<Para("A")>>),
   [type |-> "callout", attrs |-> [type |-> [str |-> "warning"]],
    content |-> <<ParaAB>>],
   [type |-> "callout", attrs |-> [type |-> [num |-> 5]],
    content |-> <<Para("A")>>],
   [type |-> "callout", attrs |-> [type |-> [str |-> "Note"]],
    content |-> <<Para("A"), ParaAB>>],
   [type |-> "callout", attrs |-> [type |-> [str |-> ""]],
    content |-> <<Para("B")>>],
   [type |-> "callout", attrs |-> [id |-> "c"], content |-> <<ParaAB>>],
   Leaf("callout")}

OtherBlocks ==
  {Leaf("subpages"), Leaf("horizontalRule"), Leaf("drawio"),
   Node("table", <<Node("tableRow", <<Node("tableCell", <<Para("A")>>),
                                      Node("tableCell", <<Para("B")>>)>>)>>),
   Node("details", <<Node("detailsSummary", <<Text("A")>>),
                     Node("detailsContent", <<Para("B")>>)>>),
   [type |-> "image", attrs |-> [src |-> "u", caption |-> "c"]],
   [type |-> "mention", attrs |-> [id |-> "u1"]],
   [type |-> "mathBlock", attrs |-> [latex |-> "x"]]}

Summary(kids) == Node("detailsSummary", kids)

DetailsContent(kids) == Node("detailsContent", kids)

\* Disclosure widgets: a summary followed by a content, one nested in
\* another, and ones lacking a child or holding them in the other order.
Details ==
  {Node("details", <<Summary(sk), DetailsContent(ck)>>) :
     sk \in SeqsUpTo({Text("A"), Text("B")}, MaxChildren),
     ck \in SeqsUpTo({Para("B"), ParaAB}, MaxChildren)}
    \cup {Node("details",
               <<Summary(<<Text("A")>>),
                 DetailsContent(<<Node("details", <<Summary(<<Text("B")>>),
                                                    DetailsContent(<<Para("B")>>)>>)>>)>>),
          Node("details", <<Summary(<<Text("A")>>)>>),
          Node("details", <<DetailsContent(<<Para("B")>>)>>),
          Node("details", <<DetailsContent(<<Para("B")>>), Summary(<<Text("A")>>)>>),
          Leaf("details")}

\* Table cells: a data cell, a header cell, a cell of two children and a
\* cell whose paragraph spans two lines.
Cells ==
  {Node("tableCell", <<Para("A")>>), Node("tableHeader", <<Para("B")>>),
   Node("tableHeader", <<Para("A")>>),
   Node("tableCell", <<Para("A"), Para("B")>>), Node("tableCell", <<ParaAB>>),
   Leaf("tableCell")}

Rows == {Node("tableRow", c) : c \in SeqsUpTo(Cells, MaxChildren)}

SimpleRows ==
  {Node("tableRow", <<Node("tableHeader", <<Para("A")>>),
                      Node("tableHeader", <<Para("B")>>)>>),
   Node("tableRow", <<Node("tableCell", <<Para("A")>>),
                      Node("tableCell", <<Para("B")>>)>>)}

Tables ==
  {Node("table", <<r>>) : r \in Rows}
    \cup {Node("table", rs) : rs \in SeqsUpTo(SimpleRows, MaxChildren)}
    \cup {Leaf("table")}

Blocks ==
  {Node("paragraph", <<t>>) : t \in MarkedTexts}
    \cup Paragraphs \cup Headings \cup Lists \cup TaskLists \cup Blockquotes
    \cup Unknowns \cup Callouts \cup OtherBlocks \cup Details \cup Tables

\* Blocks combined at the top level of a document.
TopBlocks == {Para("A"), Para(" "), Leaf("subpages"), Para(SubpagesToken), Null}

\* The trees a caller hands over: no tree, a document node without content,
\* and document nodes over the blocks above.
Roots ==
  {Null, Leaf("doc"), [type |-> "doc", attrs |-> [level |-> 1]]}
    \cup {Node("doc", <<b>>) : b \in Blocks}
    \cup {Node("doc", c) : c \in SeqsUpTo(TopBlocks, MaxChildren)}
    \cup {Node("doc", <<Para(" "), Para("A"), Para(" ")>>)}

\* The child pages of the sidebar response.
ChildPages ==
  {[id |-> "p1", title |-> "One"], [id |-> "p2", title |-> "Two"]}

--------------------------------------------------------------------------
(* The calls.                                                              *)

\* What a rejected request leaves where a response body would be.
ErrorBody == [error |-> "Request failed"]

\* this.client.post("/pages/info", { pageId })
infoRequest(pageId) == [endpoint |-> "/pages/info", payload |-> [pageId |-> pageId]]

\* listSidebarPages: this.client.post("/pages/sidebar-pages", {spaceId, pageId, page: 1})
sidebarRequest(spaceId, pageId) ==
  [endpoint |-> "/pages/sidebar-pages",
   payload |-> [spaceId |-> spaceId, pageId |-> pageId, page |-> 1]]

\* The page getPage is asked for, and the space /pages/info reports for it.
RequestedPage == [id |-> "p1", spaceId |-> "s1"]

Init ==
  /\ input \in Roots
  /\ pc = "idle"
  /\ output = NoValue
  /\ content = NoValue
  /\ subpages = <<>>
  /\ pageResult = NoValue
  /\ token = Null
  /\ requests = <<>>
  /\ responses = <<>>
  /\ locals = NoValue
  /\ result = NoValue

\* A conversion that empties the content of the tree it was given.
ConvertMutating ==
  /\ pc = "idle"
  /\ \/ /\ ~convertThrows(input)
        /\ output' = convertProseMirrorToMarkdown(input)
        /\ input' = IF input = Null THEN Null ELSE Leaf("doc")
        /\ pc' = "returned"
     \/ /\ convertThrows(input)
        /\ output' = NoValue
        /\ input' = input
        /\ pc' = "raised"
  /\ UNCHANGED <<content, subpages, pageResult>>
  /\ UNCHANGED clientVars

\* A caller invokes convertProseMirrorToMarkdown(input).
Convert ==
  /\ pc = "idle"
  /\ \/ /\ ~convertThrows(input)
        /\ output' = convertProseMirrorToMarkdown(input)
        /\ pc' = "returned"
     \/ /\ convertThrows(input)
        /\ output' = NoValue
        /\ pc' = "raised"
  /\ UNCHANGED <<input, content, subpages, pageResult>>
  /\ UNCHANGED clientVars

\* getPage up to its second await: the /pages/info response holds input as
\* resultData.content, which is converted when it is truthy.
GetPageInfo ==
  /\ pc = "idle"
  /\ \/ /\ input = Null
        /\ content' = ""
        /\ pc' = "info"
     \/ /\ input # Null /\ ~convertThrows(input)
        /\ content' = convertProseMirrorToMarkdown(input)
        /\ pc' = "info"
     \/ /\ input # Null /\ convertThrows(input)
        /\ content' = NoValue
        /\ pc' = "raised"
  /\ requests' = Append(requests, infoRequest(RequestedPage.id))
  /\ responses' = Append(responses, [data |-> [id |-> RequestedPage.id, spaceId |-> RequestedPage.spaceId,
                  content |-> input]])
  /\ UNCHANGED <<input, output, subpages, pageResult>>
  /\ UNCHANGED <<token, locals, result>>

\* The rest of getPage once listSidebarPages has answered with items.
GetPageSubpages(items) ==
  /\ pc = "info"
  /\ subpages' = items
  /\ content' = resolveSubpages(content, items)
  /\ pageResult' = filterPage(resolveSubpages(content, items), items)
  /\ pc' = "done"
  /\ requests' = Append(requests, sidebarRequest(RequestedPage.spaceId, RequestedPage.id))
  /\ responses' = Append(responses, [data |-> [items |-> items]])
  /\ UNCHANGED <<input, output>>
  /\ UNCHANGED <<token, locals, result>>

\* The rest of getPage once listSidebarPages has failed: the catch block
\* leaves subpages empty.
GetPageSubpagesFailed ==
  /\ pc = "info"
  /\ subpages' = <<>>
  /\ content' = resolveSubpages(content, <<>>)
  /\ pageResult' = filterPage(resolveSubpages(content, <<>>), <<>>)
  /\ pc' = "done"
  /\ requests' = Append(requests, sidebarRequest(RequestedPage.spaceId, RequestedPage.id))
  /\ responses' = Append(responses, ErrorBody)
  /\ UNCHANGED <<input, output>>
  /\ UNCHANGED <<token, locals, result>>

Next ==
  \/ Convert
  \/ GetPageInfo
  \/ \E items \in SeqsUpTo(ChildPages, MaxSubpages) : GetPageSubpages(items)
  \/ GetPageSubpagesFailed

Spec == Init /\ [][Next]_vars

--------------------------------------------------------------------------
(* DocmostClient: authentication and paginateAll.                          *)

\* The most pages the server serves to one paginateAll call.
MaxPages == 3

\* The token a successful login stores.
Token == [authToken |-> "t1"]

\* An object without fields.
EmptyObject == [k \in {} |-> 0]

\* { ...a, ...b }: the fields of both, b's value where both have the field.
spread(a, b) ==
  [k \in DOMAIN a \cup DOMAIN b |-> IF k \in DOMAIN b THEN b[k] ELSE a[k]]

\* A limit that is passed on as given.
clampNone(limit) == limit

\* Math.max(1, Math.min(100, limit))
clamp(limit) ==
  LET m == IF limit < 100 THEN limit ELSE 100 IN IF m > 1 THEN m ELSE 1

\* data.data?.items || data.items || []
itemsOf(data) ==
  IF "data" \in DOMAIN data /\ "items" \in DOMAIN data.data THEN data.data.items
  ELSE IF "items" \in DOMAIN data THEN data.items
  ELSE <<>>

\* data.data?.meta || data.meta
metaOf(data) ==
  IF "data" \in DOMAIN data /\ "meta" \in DOMAIN data.data THEN data.data.meta
  ELSE IF "meta" \in DOMAIN data THEN data.meta
  ELSE NoValue

\* A next-page test that always finds a next page.
hasNextPageAlways(meta) == TRUE

\* meta?.hasNextPage || false
hasNextPageOf(meta) ==
  meta # NoValue /\ "hasNextPage" \in DOMAIN meta /\ meta.hasNextPage

\* The arguments of the paginateAll calls: endpoint, basePayload, limit.
Endpoints == {"/spaces", "/pages/recent"}

BasePayloads ==
  {EmptyObject, [spaceId |-> "s1"], [spaceId |-> "s1", limit |-> 500, page |-> 7]}

Limits == {-5, 0, 1, 50, 100, 101}

\* The response bodies of a paginated endpoint.
ItemLists == {<<>>, <<"a">>, <<"b", "c">>}

Metas == {[hasNextPage |-> TRUE], [hasNextPage |-> FALSE], [total |-> 1]}

PageBodies ==
  {[data |-> [items |-> i, meta |-> m]] : i \in ItemLists, m \in Metas}
    \cup {[data |-> [items |-> i]] : i \in ItemLists}
    \cup {[items |-> <<"d">>, meta |-> m] : m \in Metas}
    \cup {[data |-> [items |-> <<"e">>], meta |-> [hasNextPage |-> TRUE]],
          [data |-> [meta |-> [hasNextPage |-> TRUE]]],
          [success |-> TRUE]}

\* A caller invokes paginateAll(endpoint, basePayload, limit) on a client
\* that has or has not logged in yet.
PaginateAll(endpoint, basePayload, limit) ==
  /\ pc = "idle"
  /\ locals' = [op |-> "paginateAll", endpoint |-> endpoint,
                basePayload |-> basePayload, limit |-> limit]
  /\ pc' = "auth"
  /\ UNCHANGED <<token, requests, responses, result>>
  /\ UNCHANGED converterVars

\* ensureAuthenticated: login() is awaited when there is no token.
EnsureAuthenticated ==
  /\ pc = "auth"
  /\ pc' = IF token = Null THEN "login" ELSE "entered"
  /\ UNCHANGED clientVars
  /\ UNCHANGED converterVars

\* login(): performLogin resolved with a token, which is stored.
LoginSucceeded ==
  /\ pc = "login"
  /\ token' = Token
  /\ pc' = "entered"
  /\ UNCHANGED <<requests, responses, locals, result>>
  /\ UNCHANGED converterVars

\* login(): performLogin rejected; the rejection leaves the operation.
LoginFailed ==
  /\ pc = "login"
  /\ pc' = "raised"
  /\ UNCHANGED clientVars
  /\ UNCHANGED converterVars

\* paginateAll between ensureAuthenticated and the loop.
PaginateEnter ==
  /\ pc = "entered"
  /\ locals.op = "paginateAll"
  /\ locals' = [op |-> locals.op,
                endpoint |-> locals.endpoint, basePayload |-> locals.basePayload,
                limit |-> locals.limit, clampedLimit |-> clamp(locals.limit),
                page |-> 1, allItems |-> <<>>, hasNextPage |-> TRUE]
  /\ pc' = "loop"
  /\ UNCHANGED <<token, requests, responses, result>>
  /\ UNCHANGED converterVars

\* while (hasNextPage): this.client.post(endpoint, {...basePayload, limit, page})
PaginateRequest ==
  /\ pc = "loop"
  /\ locals.hasNextPage
  /\ requests' = Append(requests,
       [endpoint |-> locals.endpoint,
        payload |-> spread(locals.basePayload,
                           [limit |-> locals.clampedLimit, page |-> locals.page])])
  /\ pc' = "waiting"
  /\ UNCHANGED <<token, responses, locals, result>>
  /\ UNCHANGED converterVars

\* The awaited post resolved with the body data: the rest of the loop body.
PaginateResponse(data) ==
  /\ pc = "waiting"
  /\ hasNextPageOf(metaOf(data)) => locals.page < MaxPages
  /\ responses' = Append(responses, data)
  /\ locals' = [locals EXCEPT !.allItems = locals.allItems \o itemsOf(data),
                              !.hasNextPage = hasNextPageOf(metaOf(data)),
                              !.page = locals.page + 1]
  /\ pc' = "loop"
  /\ UNCHANGED <<token, requests, result>>
  /\ UNCHANGED converterVars

\* The awaited post rejected: paginateAll rejects out of the loop.
PaginateRequestFailed ==
  /\ pc = "waiting"
  /\ pc' = "raised"
  /\ UNCHANGED clientVars
  /\ UNCHANGED converterVars

\* return allItems
PaginateReturn ==
  /\ pc = "loop"
  /\ ~locals.hasNextPage
  /\ result' = locals.allItems
  /\ pc' = "returned"
  /\ UNCHANGED <<token, requests, responses, locals>>
  /\ UNCHANGED converterVars

\* A client freshly constructed, or one that logged in during an earlier call.
InitClient ==
  /\ input = Null
  /\ pc = "idle"
  /\ output = NoValue
  /\ content = NoValue
  /\ subpages = <<>>
  /\ pageResult = NoValue
  /\ token \in {Null, Token}
  /\ requests = <<>>
  /\ responses = <<>>
  /\ locals = NoValue
  /\ result = NoValue

NextPaginate ==
  \/ \E e \in Endpoints, b \in BasePayloads, l \in Limits : PaginateAll(e, b, l)
  \/ EnsureAuthenticated
  \/ LoginSucceeded
  \/ LoginFailed
  \/ PaginateEnter
  \/ PaginateRequest
  \/ \E data \in PageBodies : PaginateResponse(data)
  \/ PaginateRequestFailed
  \/ PaginateReturn

SpecPaginate == InitClient /\ [][NextPaginate]_vars

\* paginateAll with the event loop running: a step of the client that can
\* be taken is taken.  Nothing makes the server answer a request.
SpecPaginateFair ==
  /\ SpecPaginate
  /\ WF_vars(EnsureAuthenticated)
  /\ WF_vars(PaginateEnter)
  /\ WF_vars(PaginateRequest)
  /\ WF_vars(PaginateReturn)

--------------------------------------------------------------------------
(* DocmostClient.updatePage, swap-and-replace version: the old page is     *)
(* read, its children are listed, a new page is imported and moved to the  *)
(* old page's place, the children are moved under it and the old page is   *)
(* deleted.  Every await either resolves or rejects; a rejection leaves    *)
(* updatePage at once.  The nested ensureAuthenticated calls of getPage,   *)
(* importPage, movePage and deletePage find the token set.                 *)

\* The most pages a listing holds.
MaxListed == 2

\* paginateAll's default limit.
DefaultLimit == 100

\* title || oldPage.title || "Untitled"
effectiveTitleOf(args, oldPage) ==
  IF "title" \in DOMAIN args /\ args.title # "" THEN args.title
  ELSE IF "title" \in DOMAIN oldPage /\ oldPage.title # "" THEN oldPage.title
  ELSE "Untitled"

\* if (parentPageId): the page has a parent.
hasParent(page) == "parentPageId" \in DOMAIN page /\ page.parentPageId # ""

\* A children filter that finds no child.
childrenNone(allPages, pageId) == <<>>

\* allPages.filter((p) => p.parentPageId === pageId)
childrenOf(allPages, pageId) ==
  SelectSeq(allPages,
            LAMBDA p : "parentPageId" \in DOMAIN p /\ p.parentPageId = pageId)

\* listPages: spaceId ? { spaceId } : {}
listPayload(page) ==
  IF "spaceId" \in DOMAIN page /\ page.spaceId # ""
  THEN [spaceId |-> page.spaceId] ELSE EmptyObject

\* movePage(pageId, parentPageId): position || "a00000"
moveRequest(pageId, parentPageId) ==
  [endpoint |-> "/pages/move",
   payload |-> [pageId |-> pageId, parentPageId |-> parentPageId,
                position |-> "a00000"]]

\* The arguments of updatePage: content, and a title that may be missing.
UpdateArgs ==
  {[pageId |-> "p1", content |-> "c"],
   [pageId |-> "p1", content |-> "c", title |-> ""],
   [pageId |-> "p1", content |-> "c", title |-> "T"]}

\* What /pages/info answers for the old page.
OldPages ==
  {[id |-> "p1", spaceId |-> "s1", title |-> "Old", parentPageId |-> "p0"],
   [id |-> "p1", spaceId |-> "s1", title |-> "Old"],
   [id |-> "p1", spaceId |-> "s1", title |-> "", parentPageId |-> "p0"],
   [id |-> "p1", spaceId |-> "s1", title |-> "Old", parentPageId |-> ""],
   [id |-> "p1", title |-> "Old"]}

\* The pages a listing of the space may hold.
ListedPages ==
  {[id |-> "c1", parentPageId |-> "p1"], [id |-> "c2", parentPageId |-> "p1"],
   [id |-> "x1", parentPageId |-> "p0"], [id |-> "r1"]}

\* The id the import gives the new page.
NewIds == {"n1"}

\* A caller invokes updatePage(pageId, content, title).
UpdatePageSwap(args) ==
  /\ pc = "idle"
  /\ locals' = [op |-> "updatePageSwap", args |-> args]
  /\ pc' = "auth"
  /\ UNCHANGED <<token, requests, responses, result>>
  /\ UNCHANGED converterVars

\* 1. oldPageRes = await this.getPage(pageId)
SwapGetPage ==
  /\ pc = "entered" /\ locals.op = "updatePageSwap"
  /\ requests' = Append(requests,
       [endpoint |-> "/pages/info", payload |-> [pageId |-> locals.args.pageId]])
  /\ \/ \E page \in OldPages :
          /\ responses' = Append(responses, [data |-> page])
          /\ locals' = [op |-> locals.op, args |-> locals.args, oldPage |-> page,
                        effectiveTitle |-> effectiveTitleOf(locals.args, page)]
          /\ pc' = "list"
     \/ /\ pc' = "raised"
        /\ UNCHANGED <<responses, locals>>
  /\ UNCHANGED <<token, result>>
  /\ UNCHANGED converterVars

\* 2. allPages = await this.listPages(spaceId), answered in one page;
\*    children = those whose parent is the old page.
SwapListPages ==
  /\ pc = "list"
  /\ requests' = Append(requests,
       [endpoint |-> "/pages/recent",
        payload |-> spread(listPayload(locals.oldPage),
                           [limit |-> clamp(DefaultLimit), page |-> 1])])
  /\ \/ \E pages \in SeqsUpTo(ListedPages, MaxListed) :
          /\ responses' = Append(responses,
               [data |-> [items |-> pages, meta |-> [hasNextPage |-> FALSE]]])
          /\ locals' = [op |-> locals.op, args |-> locals.args,
                        oldPage |-> locals.oldPage,
                        effectiveTitle |-> locals.effectiveTitle,
                        children |-> childrenOf(pages, locals.args.pageId)]
          /\ pc' = "import"
     \/ /\ pc' = "raised"
        /\ UNCHANGED <<responses, locals>>
  /\ UNCHANGED <<token, result>>
  /\ UNCHANGED converterVars

\* 3. importRes = await this.importPage(effectiveTitle, content, spaceId);
\*    a response without data.id makes importRes.data.id throw.
SwapImport ==
  /\ pc = "import"
  /\ requests' = Append(requests,
       [endpoint |-> "/pages/import",
        payload |-> spread(listPayload(locals.oldPage),
                           [title |-> locals.effectiveTitle,
                            content |-> locals.args.content])])
  /\ \/ \E id \in NewIds :
          /\ responses' = Append(responses, [data |-> [id |-> id]])
          /\ locals' = [op |-> locals.op, args |-> locals.args,
                        oldPage |-> locals.oldPage,
                        effectiveTitle |-> locals.effectiveTitle,
                        children |-> locals.children,
                        newPageId |-> id, next |-> 1]
          /\ pc' = IF hasParent(locals.oldPage) THEN "moveNew" ELSE "moveChildren"
     \/ /\ pc' = "raised"
        /\ UNCHANGED <<responses, locals>>
  /\ UNCHANGED <<token, result>>
  /\ UNCHANGED converterVars

\* 4. if (parentPageId) await this.movePage(newPageId, parentPageId)
SwapMoveNew ==
  /\ pc = "moveNew"
  /\ requests' = Append(requests,
       moveRequest(locals.newPageId, locals.oldPage.parentPageId))
  /\ \/ /\ responses' = Append(responses, [success |-> TRUE])
        /\ pc' = "moveChildren"
     \/ /\ pc' = "raised"
        /\ UNCHANGED responses
  /\ UNCHANGED <<token, locals, result>>
  /\ UNCHANGED converterVars

\* 5. for (const child of children) await this.movePage(child.id, newPageId)
SwapMoveChild ==
  /\ pc = "moveChildren"
  /\ locals.next <= Len(locals.children)
  /\ requests' = Append(requests,
       moveRequest(locals.children[locals.next].id, locals.newPageId))
  /\ \/ /\ responses' = Append(responses, [success |-> TRUE])
        /\ locals' = [locals EXCEPT !.next = locals.next + 1]
        /\ pc' = "moveChildren"
     \/ /\ pc' = "raised"
        /\ UNCHANGED <<responses, locals>>
  /\ UNCHANGED <<token, result>>
  /\ UNCHANGED converterVars

\* 6. await this.deletePage(pageId), then the success result.
SwapDelete ==
  /\ pc = "moveChildren"
  /\ locals.next > Len(locals.children)
  /\ requests' = Append(requests,
       [endpoint |-> "/pages/delete", payload |-> [pageId |-> locals.args.pageId]])
  /\ \/ /\ responses' = Append(responses, [success |-> TRUE])
        /\ result' = [success |-> TRUE, newPageId |-> locals.newPageId,
                      preservedChildrenCount |-> Len(locals.children)]
        /\ pc' = "returned"
     \/ /\ pc' = "raised"
        /\ UNCHANGED <<responses, result>>
  /\ UNCHANGED <<token, locals>>
  /\ UNCHANGED converterVars

NextUpdateSwap ==
  \/ \E args \in UpdateArgs : UpdatePageSwap(args)
  \/ EnsureAuthenticated
  \/ LoginSucceeded
  \/ LoginFailed
  \/ SwapGetPage
  \/ SwapListPages
  \/ SwapImport
  \/ SwapMoveNew
  \/ SwapMoveChild
  \/ SwapDelete

SpecUpdateSwap == InitClient /\ [][NextUpdateSwap]_vars

--------------------------------------------------------------------------
(* DocmostClient.updatePage, realtime version: the title is updated over   *)
(* the REST API when one is given, the content over the collaboration      *)
(* connection.  getCollabToken and updatePageContentRealtime are calls to  *)
(* helpers that resolve or reject; they are logged in requests under       *)
(* their names.                                                            *)

\* if (title): a title was given ("" is falsy).
titleGiven(args) == "title" \in DOMAIN args /\ args.title # ""

\* A result that names another page than the one updated.
realtimeResultOtherPage(pageId) ==
  [success |-> TRUE, modified |-> TRUE,
   message |-> "Page updated successfully.", pageId |-> "n1"]

\* { success: true, modified: true, message, pageId }
realtimeResult(pageId) ==
  [success |-> TRUE, modified |-> TRUE,
   message |-> "Page updated successfully.", pageId |-> pageId]

\* The arguments of the realtime updatePage.
RealtimeArgs ==
  {[pageId |-> p, content |-> c] : p \in {"p1", "p2"}, c \in {"", "c"}}
    \cup {[pageId |-> p, content |-> c, title |-> t] :
            p \in {"p1", "p2"}, c \in {"", "c"}, t \in {"", "T", "U"}}

\* The token getCollabToken resolves with.
CollabTokens == {"collab1"}

\* A caller (the update_page tool) invokes updatePage(pageId, content, title).
UpdatePageRealtime(args) ==
  /\ pc = "idle"
  /\ locals' = [op |-> "updatePageRealtime", args |-> args]
  /\ pc' = "auth"
  /\ UNCHANGED <<token, requests, responses, result>>
  /\ UNCHANGED converterVars

\* 1. if (title) await this.client.post("/pages/update", { pageId, title })
RealtimeTitle ==
  /\ pc = "entered" /\ locals.op = "updatePageRealtime"
  /\ \/ /\ titleGiven(locals.args)
        /\ requests' = Append(requests,
             [endpoint |-> "/pages/update",
              payload |-> [pageId |-> locals.args.pageId, title |-> locals.args.title]])
        /\ \/ /\ responses' = Append(responses, [success |-> TRUE])
              /\ pc' = "collab"
           \/ /\ pc' = "raised"
              /\ UNCHANGED responses
     \/ /\ ~titleGiven(locals.args)
        /\ pc' = "collab"
        /\ UNCHANGED <<requests, responses>>
  /\ UNCHANGED <<token, locals, result>>
  /\ UNCHANGED converterVars

\* 2. collabToken = await getCollabToken(baseURL, this.token); a rejection
\*    is caught and rethrown as "Failed to update page content: ...".
RealtimeCollabToken ==
  /\ pc = "collab"
  /\ requests' = Append(requests, [endpoint |-> "getCollabToken", payload |-> token])
  /\ \/ \E t \in CollabTokens :
          /\ responses' = Append(responses, [collabToken |-> t])
          /\ locals' = [op |-> locals.op, args |-> locals.args, collabToken |-> t]
          /\ pc' = "content"
     \/ /\ locals' = [op |-> locals.op, args |-> locals.args,
                      error |-> "Failed to update page content"]
        /\ pc' = "raised"
        /\ UNCHANGED responses
  /\ UNCHANGED <<token, result>>
  /\ UNCHANGED converterVars

\* await updatePageContentRealtime(pageId, content, collabToken, baseURL),
\* then the success result; a rejection is caught and rethrown.
RealtimeContent ==
  /\ pc = "content"
  /\ requests' = Append(requests,
       [endpoint |-> "updatePageContentRealtime",
        payload |-> [pageId |-> locals.args.pageId, content |-> locals.args.content,
                     collabToken |-> locals.collabToken]])
  /\ \/ /\ responses' = Append(responses, [success |-> TRUE])
        /\ result' = realtimeResult(locals.args.pageId)
        /\ pc' = "returned"
        /\ UNCHANGED locals
     \/ /\ locals' = [op |-> locals.op, args |-> locals.args,
                      collabToken |-> locals.collabToken,
                      error |-> "Failed to update page content"]
        /\ pc' = "raised"
        /\ UNCHANGED <<responses, result>>
  /\ UNCHANGED token
  /\ UNCHANGED converterVars

NextUpdateRealtime ==
  \/ \E args \in RealtimeArgs : UpdatePageRealtime(args)
  \/ EnsureAuthenticated
  \/ LoginSucceeded
  \/ LoginFailed
  \/ RealtimeTitle
  \/ RealtimeCollabToken
  \/ RealtimeContent

SpecUpdateRealtime == InitClient /\ [][NextUpdateRealtime]_vars

--------------------------------------------------------------------------
(* DocmostClient.createPage: the parent is looked up with getPage when one *)
(* is given, the page is imported, moved under the parent and fetched      *)
(* with getPage.  getPage posts /pages/info, converts the content and      *)
(* posts /pages/sidebar-pages, whose failure it tolerates.  A tolerated    *)
(* failure is logged in responses as an error body, so that responses[i]   *)
(* answers requests[i].                                                    *)

\* A parent test that never finds a parent.
parentNever(args) == FALSE

\* if (parentPageId): a parent was given ("" is falsy).
parentGiven(args) == "parentPageId" \in DOMAIN args /\ args.parentPageId # ""

\* An error message that does not name the parent.
parentNotFoundUnnamed(id) == "Parent page not found."

\* `Parent page with ID ${parentPageId} not found.`
parentNotFound(id) == "Parent page with ID " \o id \o " not found."

\* resultData.content ? convertProseMirrorToMarkdown(resultData.content) : ""
hasContent(page) == "content" \in DOMAIN page /\ page.content # Null

\* The arguments of createPage.
CreateArgs ==
  {[title |-> "T", content |-> "c", spaceId |-> "s1"],
   [title |-> "T", content |-> "c", spaceId |-> "s1", parentPageId |-> ""],
   [title |-> "T", content |-> "c", spaceId |-> "s1", parentPageId |-> "p0"],
   [title |-> "", content |-> "", spaceId |-> "s1", parentPageId |-> "p9"]}

\* What /pages/info answers for the page pageId: a page without content,
\* with a paragraph, with a subpages node, with a content that cannot be
\* converted.
InfoPages(pageId) ==
  {[id |-> pageId, spaceId |-> "s1"],
   [id |-> pageId, spaceId |-> "s1",
    content |-> Node("doc", <<Para("A")>>)],
   [id |-> pageId, spaceId |-> "s1",
    content |-> Node("doc", <<Leaf("subpages")>>)],
   [id |-> pageId, spaceId |-> "s1", content |-> Node("doc", <<Null>>)]}

\* getPage up to the conversion: the /pages/info request for pageId, its
\* answer and the conversion of the content.  A rejection or a conversion
\* that throws leaves the operation with the message failure.
getPageInfo(pageId, next, failure) ==
  /\ requests' = Append(requests, infoRequest(pageId))
  /\ \/ \E page \in InfoPages(pageId) :
          /\ responses' = Append(responses, [data |-> page])
          /\ IF hasContent(page) /\ convertThrows(page.content)
             THEN /\ locals' = spread(locals, [error |-> failure])
                  /\ pc' = "raised"
             ELSE /\ locals' = spread(locals,
                       [page |-> page,
                        text |-> IF hasContent(page)
                                 THEN convertProseMirrorToMarkdown(page.content)
                                 ELSE ""])
                  /\ pc' = next
     \/ /\ locals' = spread(locals, [error |-> failure])
        /\ pc' = "raised"
        /\ UNCHANGED responses

\* A caller (the create_page tool) invokes createPage(title, content, spaceId,
\* parentPageId).
CreatePage(args) ==
  /\ pc = "idle"
  /\ locals' = [op |-> "createPage", args |-> args]
  /\ pc' = "auth"
  /\ UNCHANGED <<token, requests, responses, result>>
  /\ UNCHANGED converterVars

\* if (parentPageId) { try { await this.getPage(parentPageId) } catch ... }:
\* getPage up to its conversion.
CreateLookup ==
  /\ pc = "entered" /\ locals.op = "createPage"
  /\ \/ /\ parentGiven(locals.args)
        /\ getPageInfo(locals.args.parentPageId, "lookupSubpages",
                       parentNotFound(locals.args.parentPageId))
     \/ /\ ~parentGiven(locals.args)
        /\ pc' = "import"
        /\ UNCHANGED <<requests, responses, locals>>
  /\ UNCHANGED <<token, result>>
  /\ UNCHANGED converterVars

\* The rest of the parent's getPage: the subpages are fetched, a failure is
\* tolerated, and the page createPage does not use is dropped.
CreateLookupSubpages ==
  /\ pc = "lookupSubpages"
  /\ requests' = Append(requests,
       sidebarRequest(locals.page.spaceId, locals.args.parentPageId))
  /\ \/ \E items \in SeqsUpTo(ChildPages, MaxSubpages) :
          responses' = Append(responses, [data |-> [items |-> items]])
     \/ responses' = Append(responses, ErrorBody)
  /\ locals' = [op |-> locals.op, args |-> locals.args]
  /\ pc' = "import"
  /\ UNCHANGED <<token, result>>
  /\ UNCHANGED converterVars

\* 1. axios.post(`${API_URL}/pages/import`, form); newPageId =
\*    response.data.data.id, which throws when the body has no data.
CreateImport ==
  /\ pc = "import"
  /\ requests' = Append(requests,
       [endpoint |-> "/pages/import",
        payload |-> [spaceId |-> locals.args.spaceId,
                     filename |-> (IF locals.args.title # "" THEN locals.args.title
                                   ELSE "import") \o ".md",
                     content |-> locals.args.content]])
  /\ \/ \E id \in NewIds :
          /\ responses' = Append(responses, [data |-> [id |-> id]])
          /\ locals' = [op |-> locals.op, args |-> locals.args, newPageId |-> id]
          /\ pc' = IF parentGiven(locals.args) THEN "move" ELSE "fetch"
     \/ /\ locals' = spread(locals, [error |-> ErrorBody.error])
        /\ pc' = "raised"
        /\ UNCHANGED responses
  /\ UNCHANGED <<token, result>>
  /\ UNCHANGED converterVars

\* 2. if (parentPageId) await this.movePage(newPageId, parentPageId)
CreateMove ==
  /\ pc = "move"
  /\ requests' = Append(requests,
       moveRequest(locals.newPageId, locals.args.parentPageId))
  /\ \/ /\ responses' = Append(responses, [success |-> TRUE])
        /\ pc' = "fetch"
        /\ UNCHANGED locals
     \/ /\ locals' = spread(locals, [error |-> ErrorBody.error])
        /\ pc' = "raised"
        /\ UNCHANGED responses
  /\ UNCHANGED <<token, result>>
  /\ UNCHANGED converterVars

\* return this.getPage(newPageId): getPage up to its conversion.
CreateFetch ==
  /\ pc = "fetch"
  /\ getPageInfo(locals.newPageId, "fetchSubpages", ErrorBody.error)
  /\ UNCHANGED <<token, result>>
  /\ UNCHANGED converterVars

\* The rest of the new page's getPage: the subpages are fetched, a failure
\* leaves them empty, the placeholder is resolved and the page returned.
CreateFetchSubpages ==
  /\ pc = "fetchSubpages"
  /\ requests' = Append(requests,
       sidebarRequest(locals.page.spaceId, locals.newPageId))
  /\ \/ \E items \in SeqsUpTo(ChildPages, MaxSubpages) :
          /\ responses' = Append(responses, [data |-> [items |-> items]])
          /\ result' = [data |-> filterPage(resolveSubpages(locals.text, items), items),
                        success |-> TRUE]
     \/ /\ responses' = Append(responses, ErrorBody)
        /\ result' = [data |-> filterPage(resolveSubpages(locals.text, <<>>), <<>>),
                      success |-> TRUE]
  /\ pc' = "returned"
  /\ UNCHANGED <<token, locals>>
  /\ UNCHANGED converterVars

NextCreatePage ==
  \/ \E args \in CreateArgs : CreatePage(args)
  \/ EnsureAuthenticated
  \/ LoginSucceeded
  \/ LoginFailed
  \/ CreateLookup
  \/ CreateLookupSubpages
  \/ CreateImport
  \/ CreateMove
  \/ CreateFetch
  \/ CreateFetchSubpages

SpecCreatePage == InitClient /\ [][NextCreatePage]_vars

--------------------------------------------------------------------------
(* The move_page tool and DocmostClient.movePage.  An argument of the tool *)
(* is undefined (omitted), null or a string; a string s is Str(s), so that *)
(* it can stand where null can.                                            *)

Undefined == [undefined |-> TRUE]

Str(s) == [str |-> s]

\* v is falsy: undefined, null or the empty string.
falsy(v) == v = Undefined \/ v = Null \/ v = Str("")

\* a || b
orElse(a, b) == IF falsy(a) THEN b ELSE a

\* A final parent that is the given one, whatever it is.
finalParentIdAsGiven(parentPageId) == parentPageId

\* parentPageId === "" || parentPageId === "null" ? null : parentPageId
finalParentIdOf(parentPageId) ==
  IF parentPageId = Str("") \/ parentPageId = Str("null") THEN Null
  ELSE parentPageId

\* movePage(pageId, parentPageId, position): the /pages/move request with
\* position || "a00000".
movePageRequest(pageId, parentPageId, position) ==
  [endpoint |-> "/pages/move",
   payload |-> [pageId |-> pageId, parentPageId |-> parentPageId,
                position |-> orElse(position, Str("a00000"))]]

\* `Successfully moved page ${pageId} to parent ${finalParentId || "root"}`
movedText(pageId, finalParentId) ==
  "Successfully moved page " \o pageId \o " to parent "
    \o orElse(finalParentId, Str("root")).str

\* The arguments of the move_page tool.
MoveArgs ==
  {[pageId |-> p, parentPageId |-> parent, position |-> pos] :
     p \in {"p1", "p2"},
     parent \in {Undefined, Null, Str(""), Str("null"), Str("p0"), Str("NULL"),
                 Str(" ")},
     pos \in {Undefined, Str(""), Str("b12345")}}

\* The move_page tool is invoked with { pageId, parentPageId, position }.
MovePageTool(args) ==
  /\ pc = "idle"
  /\ locals' = [op |-> "movePageTool", args |-> args,
                finalParentId |-> finalParentIdOf(args.parentPageId)]
  /\ pc' = "auth"
  /\ UNCHANGED <<token, requests, responses, result>>
  /\ UNCHANGED converterVars

\* await docmostClient.movePage(pageId, finalParentId || null, position),
\* then the tool's answer.
MovePageToolRequest ==
  /\ pc = "entered" /\ locals.op = "movePageTool"
  /\ requests' = Append(requests,
       movePageRequest(locals.args.pageId, orElse(locals.finalParentId, Null),
                       locals.args.position))
  /\ \/ /\ responses' = Append(responses, [success |-> TRUE])
        /\ result' = [content |->
                        <<[type |-> "text",
                           text |-> movedText(locals.args.pageId, locals.finalParentId)]>>]
        /\ pc' = "returned"
     \/ /\ pc' = "raised"
        /\ UNCHANGED <<responses, result>>
  /\ UNCHANGED <<token, locals>>
  /\ UNCHANGED converterVars

NextMovePageTool ==
  \/ \E args \in MoveArgs : MovePageTool(args)
  \/ EnsureAuthenticated
  \/ LoginSucceeded
  \/ LoginFailed
  \/ MovePageToolRequest

SpecMovePageTool == InitClient /\ [][NextMovePageTool]_vars

--------------------------------------------------------------------------
(* DocmostClient.deletePages: pageIds.map starts every delete request      *)
(* before any of them is answered; each promise turns its outcome into a   *)
(* result object, and Promise.all resolves with the results in input       *)
(* order once all have settled.  responses logs the settlements in the     *)
(* order they arrive, each with the index of its request.                  *)

\* The most ids one deletePages call is given.
MaxIds == 3

\* The page ids of a deletePages call.
PageIdLists == SeqsUpTo({"p1", "p2"}, MaxIds)

\* .then(() => ({ id, success: true }))
deleted(id) == [id |-> id, success |-> TRUE]

\* .catch((err) => ({ id, success: false, error: err.message }))
notDeleted(id, message) == [id |-> id, success |-> FALSE, error |-> message]

\* A caller (the delete_pages tool) invokes deletePages(pageIds).
DeletePages(pageIds) ==
  /\ pc = "idle"
  /\ locals' = [op |-> "deletePages", pageIds |-> pageIds]
  /\ pc' = "auth"
  /\ UNCHANGED <<token, requests, responses, result>>
  /\ UNCHANGED converterVars

\* pageIds.map(...): one /pages/delete request per id is started, none is
\* awaited; Promise.all(promises) then waits for all of them.
DeletePagesIssue ==
  /\ pc = "entered" /\ locals.op = "deletePages"
  /\ requests' = requests \o
       [i \in 1..Len(locals.pageIds) |->
          [endpoint |-> "/pages/delete", payload |-> [pageId |-> locals.pageIds[i]]]]
  /\ locals' = [op |-> locals.op, pageIds |-> locals.pageIds,
                pending |-> 1..Len(locals.pageIds),
                results |-> [i \in 1..Len(locals.pageIds) |-> NoValue]]
  /\ pc' = "settling"
  /\ UNCHANGED <<token, responses, result>>
  /\ UNCHANGED converterVars

\* A settlement in which a failed delete rejects the whole call.
DeletePagesSettledRejecting(i) ==
  /\ pc = "settling"
  /\ i \in locals.pending
  /\ \/ /\ responses' = Append(responses, [index |-> i, success |-> TRUE])
        /\ locals' = [locals EXCEPT !.pending = locals.pending \ {i},
                                    !.results[i] = deleted(locals.pageIds[i])]
        /\ pc' = "settling"
     \/ /\ responses' = Append(responses, ErrorBody @@ [index |-> i])
        /\ locals' = [locals EXCEPT !.pending = locals.pending \ {i}]
        /\ pc' = "raised"
  /\ UNCHANGED <<token, requests, result>>
  /\ UNCHANGED converterVars

\* The i-th request is answered or rejected: its promise becomes a result.
DeletePagesSettled(i) ==
  /\ pc = "settling"
  /\ i \in locals.pending
  /\ \/ /\ responses' = Append(responses, [index |-> i, success |-> TRUE])
        /\ locals' = [locals EXCEPT !.pending = locals.pending \ {i},
                                    !.results[i] = deleted(locals.pageIds[i])]
     \/ /\ responses' = Append(responses, ErrorBody @@ [index |-> i])
        /\ locals' = [locals EXCEPT !.pending = locals.pending \ {i},
                                    !.results[i] = notDeleted(locals.pageIds[i],
                                                              ErrorBody.error)]
  /\ pc' = "settling"
  /\ UNCHANGED <<token, requests, result>>
  /\ UNCHANGED converterVars

\* Promise.all resolves: every promise has settled.
DeletePagesReturn ==
  /\ pc = "settling"
  /\ locals.pending = {}
  /\ result' = locals.results
  /\ pc' = "returned"
  /\ UNCHANGED <<token, requests, responses, locals>>
  /\ UNCHANGED converterVars

NextDeletePages ==
  \/ \E pageIds \in PageIdLists : DeletePages(pageIds)
  \/ EnsureAuthenticated
  \/ LoginSucceeded
  \/ LoginFailed
  \/ DeletePagesIssue
  \/ \E i \in 1..MaxIds : DeletePagesSettled(i)
  \/ DeletePagesReturn

SpecDeletePages == InitClient /\ [][NextDeletePages]_vars

--------------------------------------------------------------------------
(* Tool calls running concurrently on the one docmostClient.  Each handler *)
(* is an async function: it runs until an await and the event loop then    *)
(* runs another handler.  Here pc and locals hold one entry per call; a    *)
(* login is logged in requests as a request to /auth/login and its success *)
(* in responses.                                                           *)

\* The most tool calls in the lifetime of the client.
MaxCalls == 2

Calls == 1..MaxCalls

loginRequest == [endpoint |-> "/auth/login", payload |-> EmptyObject]

\* The operations the calls run: getWorkspace() and deletePage("p1").
CallRequests ==
  {[endpoint |-> "/workspace/info", payload |-> EmptyObject],
   [endpoint |-> "/pages/delete", payload |-> [pageId |-> "p1"]]}

\* A tool handler starts an operation of the client.
CallStart(c, request) ==
  /\ pc[c] = "idle"
  /\ locals' = [locals EXCEPT ![c] = [request |-> request]]
  /\ pc' = [pc EXCEPT ![c] = "auth"]
  /\ UNCHANGED <<token, requests, responses, result>>
  /\ UNCHANGED converterVars

\* ensureAuthenticated: if (!this.token) await this.login(); login() runs
\* up to its await, so the login request is started in the same step.
CallEnsureAuthenticated(c) ==
  /\ pc[c] = "auth"
  /\ locals' = [locals EXCEPT ![c] = spread(locals[c], [observed |-> token])]
  /\ IF token = Null
     THEN /\ requests' = Append(requests, loginRequest)
          /\ pc' = [pc EXCEPT ![c] = "login"]
     ELSE /\ pc' = [pc EXCEPT ![c] = "entered"]
          /\ UNCHANGED requests
  /\ UNCHANGED <<token, responses, result>>
  /\ UNCHANGED converterVars

\* login(): performLogin resolved; this.token is assigned.
CallLoginSucceeded(c) ==
  /\ pc[c] = "login"
  /\ token' = Token
  /\ responses' = Append(responses, [endpoint |-> "/auth/login", token |-> Token])
  /\ pc' = [pc EXCEPT ![c] = "entered"]
  /\ UNCHANGED <<requests, locals, result>>
  /\ UNCHANGED converterVars

\* login(): performLogin rejected; the operation rejects.
CallLoginFailed(c) ==
  /\ pc[c] = "login"
  /\ pc' = [pc EXCEPT ![c] = "raised"]
  /\ UNCHANGED clientVars
  /\ UNCHANGED converterVars

\* The operation's request, after ensureAuthenticated.
CallRequest(c) ==
  /\ pc[c] = "entered"
  /\ requests' = Append(requests, locals[c].request)
  /\ pc' = [pc EXCEPT ![c] = "waiting"]
  /\ UNCHANGED <<token, responses, locals, result>>
  /\ UNCHANGED converterVars

\* The request is answered or rejected and the operation ends.
CallSettled(c) ==
  /\ pc[c] = "waiting"
  /\ \/ /\ responses' = Append(responses, [success |-> TRUE])
        /\ pc' = [pc EXCEPT ![c] = "returned"]
     \/ /\ pc' = [pc EXCEPT ![c] = "raised"]
        /\ UNCHANGED responses
  /\ UNCHANGED <<token, requests, locals, result>>
  /\ UNCHANGED converterVars

\* const docmostClient = new DocmostClient(API_URL): no call has started.
InitShared ==
  /\ input = Null
  /\ output = NoValue
  /\ content = NoValue
  /\ subpages = <<>>
  /\ pageResult = NoValue
  /\ pc = [c \in Calls |-> "idle"]
  /\ locals = [c \in Calls |-> NoValue]
  /\ token = Null
  /\ requests = <<>>
  /\ responses = <<>>
  /\ result = NoValue

NextShared ==
  \/ \E c \in Calls, r \in CallRequests : CallStart(c, r)
  \/ \E c \in Calls : CallEnsureAuthenticated(c)
  \/ \E c \in Calls : CallLoginSucceeded(c)
  \/ \E c \in Calls : CallLoginFailed(c)
  \/ \E c \in Calls : CallRequest(c)
  \/ \E c \in Calls : CallSettled(c)

SpecShared == InitShared /\ [][NextShared]_vars

--------------------------------------------------------------------------
(* Vocabulary of the properties.                                           *)

\* The nodes of a tree: the node itself and the nodes below it.
RECURSIVE SubNodes(_)
SubNodes(node) ==
  IF node = Null THEN {}
  ELSE {node} \cup UNION {SubNodes(contentOf(node)[i]) : i \in 1..Len(contentOf(node))}

\* The lines of a text: the pieces between its newlines.
RECURSIVE Lines(_)
Lines(s) ==
  LET i == indexOf(s, "\n") IN
  IF i = 0 THEN <<s>>
  ELSE <<SubSeq(s, 1, i - 1)>> \o Lines(SubSeq(s, i + 1, Len(s)))

\* Plain concatenation of a sequence of strings.
RECURSIVE Concat(_)
Concat(parts) == IF Len(parts) = 0 THEN "" ELSE parts[1] \o Concat(Tail(parts))

\* The document holding exactly the block b.
DocOf(b) == Node("doc", <<b>>)

\* The decoration a mark puts before and after the text it wraps.
MarkOpen(mark) ==
  CASE mark.type = "bold" -> "**"
    [] mark.type = "italic" -> "*"
    [] mark.type = "code" -> Backtick
    [] mark.type = "underline" -> "<u>"
    [] mark.type = "link" -> "["
    [] mark.type = "highlight" -> "<mark style=\"background-color: yellow\">"
    [] mark.type = "textStyle" /\ HasAttr(mark, "color") ->
         "<span style=\"color: " \o mark.attrs.color \o "\">"
    [] OTHER -> ""

MarkClose(mark) ==
  CASE mark.type = "bold" -> "**"
    [] mark.type = "italic" -> "*"
    [] mark.type = "code" -> Backtick
    [] mark.type = "underline" -> "</u>"
    [] mark.type = "link" -> "](" \o mark.attrs.href \o ")"
    [] mark.type = "highlight" -> "</mark>"
    [] mark.type = "textStyle" /\ HasAttr(mark, "color") -> "</span>"
    [] OTHER -> ""

\* Mark 0 innermost, the last mark outermost: the openings of the marks from
\* the last to the first, the text, the closings from the first to the last.
RECURSIVE Nested(_, _, _)
Nested(t, marks, k) ==
  IF k = 0 THEN t
  ELSE MarkOpen(marks[k]) \o Nested(t, marks, k - 1) \o MarkClose(marks[k])

\* The text leaves of a tree that carry a mark sequence.
MarkedLeaves(root) ==
  {n \in SubNodes(root) :
     typeOf(n) = "text" /\ "marks" \in DOMAIN n /\ "text" \in DOMAIN n}

--------------------------------------------------------------------------
(* The properties.                                                         *)

\* C1: a text leaf with raw text t and marks m0..mk renders as the marks folded
\* over t in sequence order, mark 0 innermost and the last mark outermost; the
\* marks are never reordered.
C1_MarksFoldInOrder ==
  pc = "returned" =>
    \A leaf \in MarkedLeaves(input) :
      /\ processNode(leaf) = Nested(leaf.text, leaf.marks, Len(leaf.marks))
      /\ input = DocOf(Node("paragraph", <<leaf>>)) =>
           output = Nested(leaf.text, leaf.marks, Len(leaf.marks))

C1_Witness ==
  /\ pc = "returned"
  /\ input = DocOf(Node("paragraph",
               <<Marked("x", <<[type |-> "bold"], [type |-> "italic"]>>)>>))
  /\ output = "*" \o "**" \o "x" \o "**" \o "*"

\* C2: convertProseMirrorToMarkdown never raises, whatever the input tree.
C2_NeverRaises == pc # "raised"

\* The node types the converter has a case for.
RecognizedTypes ==
  {"doc", "paragraph", "heading", "text", "codeBlock", "bulletList",
   "orderedList", "taskList", "taskItem", "listItem", "blockquote",
   "horizontalRule", "hardBreak", "image", "video", "youtube", "table",
   "tableRow", "tableCell", "tableHeader", "callout", "details",
   "detailsSummary", "detailsContent", "mathInline", "mathBlock", "mention",
   "attachment", "drawio", "excalidraw", "embed", "subpages"}

\* C3: a node of unrecognized type renders as the renderings of its children
\* concatenated in order with no separator, the empty string when it has no
\* content.
C3_UnknownTypeConcatenates ==
  pc = "returned" =>
    \A n \in SubNodes(input) :
      typeOf(n) \notin RecognizedTypes =>
        /\ processNode(n) =
             Concat([i \in 1..Len(contentOf(n)) |-> processNode(contentOf(n)[i])])
        /\ "content" \notin DOMAIN n => processNode(n) = ""
        /\ n = Node("fancyWidget", <<Text("x")>>) /\ input = DocOf(n) => output = "x"

C3_Witness ==
  /\ pc = "returned"
  /\ input = DocOf(Node("fancyWidget", <<Text("x"), Text("y")>>))
  /\ output = "xy"

\* s with its leading and trailing whitespace removed is t.
IsStripped(t, s) ==
  /\ t = "" \/ (Char(t, 1) \notin WhiteSpace /\ Char(t, Len(t)) \notin WhiteSpace)
  /\ \E i \in 0..Len(s), j \in 0..Len(s) :
       /\ i <= j
       /\ t = SubSeq(s, i + 1, j)
       /\ \A k \in (1..i) \cup ((j + 1)..Len(s)) : Char(s, k) \in WhiteSpace

\* C4: the converter returns "" for an absent root, a root without content and
\* a root with an empty content sequence; otherwise it returns the rendering of
\* the root with leading and trailing whitespace removed, so the result never
\* starts or ends with a whitespace character.
C4_EmptyOrTrimmed ==
  pc = "returned" =>
    /\ (input = Null \/ "content" \notin DOMAIN input \/ input.content = <<>>) =>
         output = ""
    /\ (input # Null /\ "content" \in DOMAIN input) =>
         IsStripped(output, processNode(input))
    /\ output # "" =>
         Char(output, 1) \notin WhiteSpace /\ Char(output, Len(output)) \notin WhiteSpace

C4_Witness ==
  /\ pc = "returned"
  /\ input = Node("doc", <<Para(" "), Para("A"), Para(" ")>>)
  /\ processNode(input) = " \n\nA\n\n "
  /\ output = "A"

\* The tree holds a subpages node.
HasSubpagesNode(root) == \E n \in SubNodes(root) : typeOf(n) = "subpages"

\* C5: for a page whose document holds a subpages node and that has at least
\* one child page, the content getPage returns holds one "- [title](page:id)"
\* entry per fetched child page, in place of the token the converter emitted.
C5_SubpagesNodeResolved ==
  (pc = "done" /\ HasSubpagesNode(input) /\ Len(subpages) > 0) =>
    /\ \A i \in 1..Len(subpages) :
         includes(pageResult.content,
                  "- [" \o subpages[i].title \o "](page:" \o subpages[i].id \o ")")
    /\ ~includes(pageResult.content, processNode(Leaf("subpages")))

\* C6: after getPage's placeholder resolution the returned content holds no
\* occurrence of "{{SUBPAGES}}", however many the converted text held.
C6_NoSentinelLeft ==
  pc = "done" => ~includes(pageResult.content, "{{SUBPAGES}}")

\* Every element of a sequence of lines starts with the prefix.
AllStartWith(lines, prefix) ==
  \A i \in 1..Len(lines) : startsWith(lines[i], prefix)

\* C7: every line of a block quote's rendering starts with "> ", also when a
\* child renders to several lines.
C7_BlockquotePrefixesEveryLine ==
  pc = "returned" =>
    \A n \in SubNodes(input) :
      (typeOf(n) = "blockquote" /\ Len(contentOf(n)) > 0) =>
        AllStartWith(Lines(processNode(n)), "> ")

\* The bullet and ordered lists of a tree.
ListsOf(root) ==
  {n \in SubNodes(root) : typeOf(n) \in {"bulletList", "orderedList"}}

\* The marker of the i-th item of a list.
MarkerOf(list, i) ==
  IF typeOf(list) = "bulletList" THEN "-" ELSE numberToString(i) \o "."

\* C8: within one list item the first line carries the marker and every later
\* line of the item is indented by two spaces, also a line that comes from a
\* child rendering to several lines.
C8_ItemContinuationIndented ==
  pc = "returned" =>
    \A n \in ListsOf(input) :
      \A i \in 1..Len(contentOf(n)) :
        LET lines == Lines(processListItem(contentOf(n)[i], MarkerOf(n, i))) IN
        Len(contentOf(contentOf(n)[i])) > 0 =>
          /\ startsWith(lines[1], MarkerOf(n, i) \o " ")
          /\ \A j \in 2..Len(lines) : startsWith(lines[j], "  ")

\* C9: a list renders its items in order joined by one newline, each item
\* starting with "- " in a bullet list and with "i. " (i its 1-based position,
\* whatever the start attribute) in an ordered list; items ["A","B"] of a
\* bullet list give "- A\n- B".
C9_ListItemsMarkedInOrder ==
  pc = "returned" =>
    \A n \in ListsOf(input) :
      LET rendered == [i \in 1..Len(contentOf(n)) |->
                         processListItem(contentOf(n)[i], MarkerOf(n, i))]
      IN /\ processNode(n) = join(rendered, "\n")
         /\ \A i \in 1..Len(rendered) :
              startsWith(rendered[i], MarkerOf(n, i) \o " ")
         /\ n = Node("bulletList", <<Item("A"), Item("B")>>) =>
              processNode(n) = "- A\n- B"

\* C10: each item of a task list renders as exactly one line, "- [x] " when
\* attrs.checked is true and "- [ ] " otherwise, followed by its content, so a
\* task list of n items renders as n lines.
C10_TaskItemOneLine ==
  pc = "returned" =>
    \A n \in SubNodes(input) :
      (typeOf(n) = "taskList" /\ Len(contentOf(n)) > 0) =>
        LET lines == Lines(processNode(n)) IN
        /\ Len(lines) = Len(contentOf(n))
        /\ \A i \in 1..Len(lines) :
             startsWith(lines[i],
                        IF checkedOf(contentOf(n)[i]) THEN "- [x] " ELSE "- [ ] ")

\* How often pat occurs in s (occurrences counted from left to right).
RECURSIVE CountOf(_, _)
CountOf(s, pat) ==
  LET i == indexOf(s, pat) IN
  IF i = 0 THEN 0 ELSE 1 + CountOf(SubSeq(s, i + Len(pat), Len(s)), pat)

\* The details nodes holding exactly one detailsSummary followed by exactly
\* one detailsContent.
WellFormedDetails(root) ==
  {n \in SubNodes(root) :
     /\ typeOf(n) = "details"
     /\ Len(contentOf(n)) = 2
     /\ typeOf(contentOf(n)[1]) = "detailsSummary"
     /\ typeOf(contentOf(n)[2]) = "detailsContent"}

\* Neither the summary nor the content of the details node nests a further
\* disclosure widget.
NoNestedDetails(n) ==
  \A m \in SubNodes(n) \ {n} : typeOf(m) # "details"

RECURSIVE Interleaved(_, _, _)
Interleaved(parts, sep, k) ==
  IF k = 0 THEN ""
  ELSE IF k = 1 THEN parts[1]
  ELSE Interleaved(parts, sep, k - 1) \o sep \o parts[k]

\* The tables of a tree whose children are rows of cells.
TablesOf(root) ==
  {n \in SubNodes(root) :
     /\ typeOf(n) = "table"
     /\ \A i \in 1..Len(contentOf(n)) :
          /\ typeOf(contentOf(n)[i]) = "tableRow"
          /\ \A j \in 1..Len(contentOf(contentOf(n)[i])) :
               typeOf(contentOf(contentOf(n)[i])[j]) \in {"tableCell", "tableHeader"}}

\* What a cell shows: its children's renderings, undelimited.
CellText(cell) ==
  Concat([k \in 1..Len(contentOf(cell)) |-> processNode(contentOf(cell)[k])])

\* What a row shows: "| ", its cells separated by " | ", " |".
RowText(row) ==
  "| " \o Interleaved([j \in 1..Len(contentOf(row)) |-> CellText(contentOf(row)[j])],
                      " | ", Len(contentOf(row))) \o " |"

\* Every cell of the table renders to a single line.
SingleLineCells(n) ==
  \A i \in 1..Len(contentOf(n)) :
    \A j \in 1..Len(contentOf(contentOf(n)[i])) :
      ~includes(CellText(contentOf(contentOf(n)[i])[j]), "\n")

\* C12: a table renders as its rows joined by one newline, a row as "| " +
\* its cells joined by " | " + " |", a cell or header cell as its children
\* concatenated; no header-separator line is emitted, so r rows of single-line
\* cells give exactly r lines.
C12_TableRowsOfCells ==
  pc = "returned" =>
    \A n \in TablesOf(input) :
      LET rows == contentOf(n) IN
      /\ processNode(n) =
           Interleaved([i \in 1..Len(rows) |-> RowText(rows[i])], "\n", Len(rows))
      /\ \A i \in 1..Len(rows) : \A j \in 1..Len(contentOf(rows[i])) :
           processNode(contentOf(rows[i])[j]) = CellText(contentOf(rows[i])[j])
      /\ (Len(rows) > 0 /\ SingleLineCells(n)) =>
           /\ Len(Lines(processNode(n))) = Len(rows)
           /\ \A k \in 1..Len(rows) : ~includes(Lines(processNode(n))[k], "---")

C12_Witness ==
  /\ pc = "returned"
  /\ input = DocOf(Node("table",
               <<Node("tableRow", <<Node("tableCell", <<Para("A")>>),
                                    Node("tableCell", <<Para("B")>>)>>)>>))
  /\ output = "| A | B |"

\* The headings of a tree whose level is absent or one of 1..6.
HeadingsOf(root) ==
  {n \in SubNodes(root) :
     /\ typeOf(n) = "heading"
     /\ HasAttr(n, "level") => n.attrs.level \in 1..6}

\* n "#" characters.
Hashes(n) ==
  CASE n = 1 -> "#" [] n = 2 -> "##" [] n = 3 -> "###" [] n = 4 -> "####"
    [] n = 5 -> "#####" [] n = 6 -> "######"

\* The renderings of a node's children, in order.
Rendered(n) == [k \in 1..Len(contentOf(n)) |-> processNode(contentOf(n)[k])]

\* C13: a heading of level n in 1..6 with inline text t renders as n "#", one
\* space and t; without attrs or attrs.level the level is 1.
C13_HeadingHashesByLevel ==
  pc = "returned" =>
    \A h \in HeadingsOf(input) :
      processNode(h) =
        Hashes(IF HasAttr(h, "level") THEN h.attrs.level ELSE 1)
          \o " " \o Concat(Rendered(h))

C13_Witness ==
  /\ pc = "returned"
  /\ input = DocOf(Node("heading", <<Text("A")>>))
  /\ output = "# A"

\* The callouts of a tree whose type is absent or a non-empty string.
CalloutsOf(root) ==
  {n \in SubNodes(root) :
     /\ typeOf(n) = "callout"
     /\ HasAttr(n, "type") => ("str" \in DOMAIN n.attrs.type /\ n.attrs.type.str # "")}

\* The label of a callout: its type in upper case, INFO without a type.
LabelOf(n) ==
  IF ~HasAttr(n, "type") THEN "INFO"
  ELSE CASE n.attrs.type.str = "warning" -> "WARNING"
         [] n.attrs.type.str = "Note" -> "NOTE"

\* C14: a callout renders as the line "> **TYPE**" (TYPE the upper-cased
\* attrs.type, INFO when absent) followed by the lines of its rendered
\* content, every one of them prefixed with "> ".
C14_CalloutPrefixesEveryLine ==
  pc = "returned" =>
    \A c \in CalloutsOf(input) :
      LET ls == Lines(processNode(c))
          body == Lines(Interleaved(Rendered(c), "\n", Len(contentOf(c))))
      IN /\ ls[1] = "> **" \o LabelOf(c) \o "**"
         /\ Len(ls) = 1 + Len(body)
         /\ \A k \in 1..Len(body) : ls[k + 1] = "> " \o body[k]

C14_Witness ==
  /\ pc = "returned"
  /\ input = DocOf([type |-> "callout", attrs |-> [type |-> [str |-> "warning"]],
                    content |-> <<ParaAB>>])
  /\ output = "> **WARNING**\n> A\n> B"

\* The mark kinds the text renderer knows.
RecognizedMarks ==
  {"bold", "italic", "code", "link", "strike", "underline", "subscript",
   "superscript", "highlight", "textStyle"}

\* A mark of an unrecognized kind, or a textStyle mark without attrs.color.
IsNoOpMark(mark) ==
  \/ mark.type \notin RecognizedMarks
  \/ mark.type = "textStyle" /\ ~HasAttr(mark, "color")

\* The leaf without the marks that are no-ops.
WithoutNoOpMarks(leaf) ==
  [leaf EXCEPT !.marks = SelectSeq(leaf.marks, LAMBDA m : ~IsNoOpMark(m))]

\* The text leaves of a tree with a text and no mark.
UnmarkedLeaves(root) ==
  {n \in SubNodes(root) :
     /\ typeOf(n) = "text" /\ "text" \in DOMAIN n
     /\ "marks" \in DOMAIN n => Len(n.marks) = 0}

\* C15: an unrecognized mark and a textStyle mark without attrs.color leave
\* the string as it is while the other marks still apply in order, and a text
\* leaf with an empty or absent mark sequence renders as its raw text.
C15_NoOpMarksIgnored ==
  pc = "returned" =>
    /\ \A leaf \in MarkedLeaves(input) :
         /\ processNode(leaf) = processNode(WithoutNoOpMarks(leaf))
         /\ (\A i \in 1..Len(leaf.marks) : IsNoOpMark(leaf.marks[i])) =>
              processNode(leaf) = leaf.text
    /\ \A leaf \in UnmarkedLeaves(input) : processNode(leaf) = leaf.text

C15_Witness ==
  /\ pc = "returned"
  /\ input = DocOf(Node("paragraph",
               <<Marked("x", <<[type |-> "comment"], [type |-> "bold"]>>)>>))
  /\ output = "**x**"

\* C16: a conversion leaves its input tree as it was: once the call has
\* returned, every node's type, attrs, content, marks and text are what they
\* were before it.
C16_InputTreeUnchanged == [][pc' = "returned" => input' = input]_vars

C16_Witness ==
  /\ pc = "returned"
  /\ input = DocOf(Node("bulletList", <<Item("A"), Item("B")>>))
  /\ output = "- A\n- B"

\* The sequences of a sequence, one after the other.
RECURSIVE Flattened(_, _)
Flattened(seqs, k) ==
  IF k = 0 THEN <<>> ELSE Flattened(seqs, k - 1) \o seqs[k]

\* The items a response body carries: those under data when it has them,
\* else those at the top, else none.
PageItems(body) ==
  IF "data" \in DOMAIN body /\ "items" \in DOMAIN body.data THEN body.data.items
  ELSE IF "items" \in DOMAIN body THEN body.items ELSE <<>>

\* The response body announces a next page.
AnnouncesNext(body) ==
  LET hasMeta(o) == "meta" \in DOMAIN o IN
  IF "data" \in DOMAIN body /\ hasMeta(body.data)
  THEN "hasNextPage" \in DOMAIN body.data.meta /\ body.data.meta.hasNextPage
  ELSE hasMeta(body) /\ "hasNextPage" \in DOMAIN body.meta /\ body.meta.hasNextPage

\* The limit brought into 1..100.
LimitWithin(l) == IF l < 1 THEN 1 ELSE IF l > 100 THEN 100 ELSE l

\* C18: paginateAll requests pages 1, 2, 3, ... one at a time, each with the
\* base payload and the limit clamped into 1..100, goes on exactly while the
\* responses announce a next page, and returns the items of the pages it
\* requested, concatenated in request order.
C18_PagesInOrderConcatenated ==
  pc \in {"loop", "waiting", "returned", "raised"} /\ "page" \in DOMAIN locals =>
    /\ \A i \in 1..Len(requests) :
         /\ requests[i].endpoint = locals.endpoint
         /\ requests[i].payload.page = i
         /\ requests[i].payload.limit = LimitWithin(locals.limit)
         /\ DOMAIN requests[i].payload =
              DOMAIN locals.basePayload \cup {"limit", "page"}
         /\ \A k \in DOMAIN locals.basePayload \ {"limit", "page"} :
              requests[i].payload[k] = locals.basePayload[k]
    /\ Len(responses) <= Len(requests) /\ Len(requests) <= Len(responses) + 1
    /\ \A i \in 1..Len(responses) : i < Len(requests) => AnnouncesNext(responses[i])
    /\ pc = "returned" =>
         /\ Len(requests) >= 1 /\ Len(responses) = Len(requests)
         /\ ~AnnouncesNext(responses[Len(responses)])
         /\ result = Flattened([i \in 1..Len(responses) |-> PageItems(responses[i])],
                               Len(responses))

C18_Witness ==
  /\ pc = "returned"
  /\ Len(requests) = 3
  /\ locals.limit = 101
  /\ requests[3].payload = [spaceId |-> "s1", limit |-> 100, page |-> 3]
  /\ result = <<"a", "d", "b", "c">>

\* What a request of updatePage does: its endpoint, and the page it is
\* about (and where a move puts it).
StepOf(r) ==
  IF r.endpoint = "/pages/move"
  THEN [endpoint |-> r.endpoint, pageId |-> r.payload.pageId,
        parentPageId |-> r.payload.parentPageId]
  ELSE IF r.endpoint \in {"/pages/info", "/pages/delete"}
  THEN [endpoint |-> r.endpoint, pageId |-> r.payload.pageId]
  ELSE [endpoint |-> r.endpoint]

\* The children the listing (second response) shows for the page.
ListedChildren(pageId) ==
  SelectSeq(responses[2].data.items,
            LAMBDA p : "parentPageId" \in DOMAIN p /\ p.parentPageId = pageId)

\* The first three steps: read the old page, list, import.
FirstSteps(pageId) ==
  <<[endpoint |-> "/pages/info", pageId |-> pageId],
    [endpoint |-> "/pages/recent"], [endpoint |-> "/pages/import"]>>

\* The steps after the import answered: the new page under the old parent
\* when there is one, every listed child under the new page, the delete.
LastSteps(pageId) ==
  LET old == responses[1].data
      new == responses[3].data.id
      kids == ListedChildren(pageId)
  IN (IF "parentPageId" \in DOMAIN old /\ old.parentPageId # ""
      THEN <<[endpoint |-> "/pages/move", pageId |-> new,
              parentPageId |-> old.parentPageId]>>
      ELSE <<>>)
       \o [i \in 1..Len(kids) |->
             [endpoint |-> "/pages/move", pageId |-> kids[i].id, parentPageId |-> new]]
       \o <<[endpoint |-> "/pages/delete", pageId |-> pageId]>>

ExpectedSteps(pageId) ==
  IF Len(responses) >= 3 THEN FirstSteps(pageId) \o LastSteps(pageId)
  ELSE FirstSteps(pageId)

\* C19: the swap-and-replace updatePage reads the old page, lists, imports,
\* moves the new page under the old parent if there is one, moves every child,
\* deletes the old page, in this order; the delete is requested only after
\* every listed child was moved, and a failure before it leaves the old page
\* undeleted and the call without a success result.
C19_SwapStepsInOrder ==
  "args" \in DOMAIN locals =>
    LET pageId == locals.args.pageId
        expected == ExpectedSteps(pageId)
    IN /\ Len(responses) <= Len(requests) /\ Len(requests) <= Len(responses) + 1
       /\ Len(requests) <= Len(expected)
       /\ \A i \in 1..Len(requests) : StepOf(requests[i]) = expected[i]
       /\ \A i \in 1..Len(requests) :
            requests[i].endpoint = "/pages/delete" =>
              /\ i = Len(requests) /\ Len(responses) >= i - 1
              /\ \A k \in 1..Len(ListedChildren(pageId)) :
                   \E j \in 1..(i - 1) :
                     StepOf(requests[j]) =
                       [endpoint |-> "/pages/move",
                        pageId |-> ListedChildren(pageId)[k].id,
                        parentPageId |-> responses[3].data.id]
       /\ result # NoValue =>
            /\ pc = "returned"
            /\ Len(requests) = Len(expected) /\ Len(responses) = Len(requests)
            /\ requests[Len(requests)].endpoint = "/pages/delete"
            /\ result.success /\ result.newPageId = responses[3].data.id
       /\ pc = "raised" => result = NoValue

C19_Witness ==
  /\ pc = "returned"
  /\ Len(requests) = 7
  /\ requests[4] = moveRequest("n1", "p0")
  /\ requests[5] = moveRequest("c2", "n1")
  /\ requests[6] = moveRequest("c1", "n1")
  /\ requests[7].endpoint = "/pages/delete"
  /\ result.preservedChildrenCount = 2

\* The endpoints of the requests issued so far.
EndpointsRequested == [i \in 1..Len(requests) |-> requests[i].endpoint]

\* What the realtime updatePage may request, in order: the title update
\* when a non-empty title was given, the collaboration token, the content.
RealtimeSteps(args) ==
  (IF "title" \in DOMAIN args /\ args.title # ""
   THEN <<"/pages/update">> ELSE <<>>)
    \o <<"getCollabToken", "updatePageContentRealtime">>

WithParent(args) == "parentPageId" \in DOMAIN args /\ args.parentPageId # ""

\* The position of the import among createPage's requests.
ImportIndex(args) == IF WithParent(args) THEN 3 ELSE 1

\* The steps up to the import: the parent's lookup (page, then subpages)
\* when a parent was given, the import.
StepsToImport(args) ==
  (IF WithParent(args)
   THEN <<[endpoint |-> "/pages/info", pageId |-> args.parentPageId],
          [endpoint |-> "/pages/sidebar-pages"]>>
   ELSE <<>>) \o <<[endpoint |-> "/pages/import"]>>

\* The steps after the import answered with the id new: the move under the
\* parent when one was given, the fetch of the new page (page, then subpages).
StepsAfterImport(args, new) ==
  (IF WithParent(args)
   THEN <<[endpoint |-> "/pages/move", pageId |-> new,
           parentPageId |-> args.parentPageId]>>
   ELSE <<>>)
    \o <<[endpoint |-> "/pages/info", pageId |-> new],
         [endpoint |-> "/pages/sidebar-pages"]>>

CreateSteps(args) ==
  IF Len(responses) >= ImportIndex(args)
  THEN StepsToImport(args)
         \o StepsAfterImport(args, responses[ImportIndex(args)].data.id)
  ELSE StepsToImport(args)

\* C21: createPage with a parent looks the parent up, imports, moves the new
\* page under the parent and fetches it, in this order; the fetch is
\* requested only after the move succeeded; without a parent there is no
\* lookup and no move.
C21_CreateStepsInOrder ==
  ("args" \in DOMAIN locals /\ locals.op = "createPage") =>
    LET args == locals.args
        expected == CreateSteps(args)
    IN /\ Len(responses) <= Len(requests) /\ Len(requests) <= Len(responses) + 1
       /\ Len(requests) <= Len(expected)
       /\ \A i \in 1..Len(requests) : StepOf(requests[i]) = expected[i]
       /\ \A i \in 1..Len(requests) :
            (WithParent(args) /\ i > ImportIndex(args)
               /\ requests[i].endpoint = "/pages/info") =>
              \E j \in 1..(i - 1) :
                /\ requests[j] = moveRequest(requests[i].payload.pageId,
                                             args.parentPageId)
                /\ responses[j] = [success |-> TRUE]
       /\ ~WithParent(args) =>
            \A i \in 1..Len(requests) :
              /\ requests[i].endpoint # "/pages/move"
              /\ requests[i].endpoint = "/pages/info" => i > ImportIndex(args)
       /\ pc = "returned" =>
            /\ Len(requests) = Len(expected) /\ result # NoValue

C21_Witness ==
  /\ pc = "returned"
  /\ Len(requests) = 6
  /\ WithParent(locals.args)
  /\ EndpointsRequested =
       <<"/pages/info", "/pages/sidebar-pages", "/pages/import", "/pages/move",
         "/pages/info", "/pages/sidebar-pages">>
  /\ requests[4] = moveRequest("n1", "p0")
  /\ requests[5].payload.pageId = "n1"

\* The parent's lookup failed: its /pages/info request was rejected, or
\* answered with a content that cannot be converted.
LookupFailed ==
  /\ "args" \in DOMAIN locals /\ locals.op = "createPage"
  /\ WithParent(locals.args)
  /\ Len(requests) >= 1
  /\ \/ Len(responses) = 0
     \/ /\ "content" \in DOMAIN responses[1].data
        /\ convertThrows(responses[1].data.content)

\* C23: when the lookup of the given parent fails, createPage throws "Parent
\* page with ID <id> not found." and requests neither an import nor a move.
C23_ParentNotFoundCreatesNothing ==
  LookupFailed =>
    /\ pc = "raised"
    /\ "error" \in DOMAIN locals
    /\ locals.error = "Parent page with ID " \o locals.args.parentPageId \o " not found."
    /\ result = NoValue
    /\ \A i \in 1..Len(requests) :
         requests[i].endpoint \notin {"/pages/import", "/pages/move"}

C23_Witness ==
  /\ pc = "raised"
  /\ LookupFailed
  /\ Len(responses) = 0
  /\ locals.error = "Parent page with ID p0 not found."
  /\ EndpointsRequested = <<"/pages/info">>

\* The parents that mean the root: omitted, null, "" and "null".
RootParents == {Undefined, Null, Str(""), Str("null")}

\* C22: the move_page tool sends parentPageId = null exactly when the given
\* parent is omitted, null, "" or "null", sends any other string unchanged,
\* and sends the position "a00000" when none is given.
C22_MoveToRootOrParent ==
  ("args" \in DOMAIN locals /\ locals.op = "movePageTool") =>
    \A i \in 1..Len(requests) :
      LET sent == requests[i].payload
          args == locals.args
      IN /\ requests[i].endpoint = "/pages/move"
         /\ sent.pageId = args.pageId
         /\ sent.parentPageId = Null <=> args.parentPageId \in RootParents
         /\ args.parentPageId \notin RootParents =>
              sent.parentPageId = args.parentPageId
         /\ args.position = Undefined => sent.position = Str("a00000")
         /\ args.position \notin {Undefined, Str("")} =>
              sent.position = args.position

C22_Witness ==
  /\ pc = "returned"
  /\ locals.args.parentPageId = Str("null")
  /\ locals.args.position = Undefined
  /\ requests = <<[endpoint |-> "/pages/move",
                   payload |-> [pageId |-> "p1", parentPageId |-> Null,
                                position |-> Str("a00000")]]>>

\* The settlements logged for the i-th request.
SettlementsOf(i) == SelectSeq(responses, LAMBDA r : r.index = i)

\* C24: deletePages requests one delete per input id, all of them before any
\* is answered; once authenticated it never rejects; it resolves to one
\* result per id in input order, {id, success: true} for a delete that
\* succeeded and {id, success: false, error} for one that failed, whatever
\* became of the others.
C24_DeletePagesAllSettled ==
  ("pageIds" \in DOMAIN locals /\ locals.op = "deletePages") =>
    LET ids == locals.pageIds IN
    /\ pc = "raised" => (token = Null /\ requests = <<>>)
    /\ pc \in {"settling", "returned"} =>
         /\ Len(requests) = Len(ids)
         /\ \A i \in 1..Len(ids) :
              /\ requests[i] = [endpoint |-> "/pages/delete",
                                payload |-> [pageId |-> ids[i]]]
              /\ Len(SettlementsOf(i)) <= 1
    /\ Len(responses) > 0 => Len(requests) = Len(ids)
    /\ pc = "returned" =>
         /\ Len(result) = Len(ids)
         /\ \A i \in 1..Len(ids) :
              /\ Len(SettlementsOf(i)) = 1
              /\ result[i].id = ids[i]
              /\ "success" \in DOMAIN SettlementsOf(i)[1] =>
                   result[i] = [id |-> ids[i], success |-> TRUE]
              /\ "error" \in DOMAIN SettlementsOf(i)[1] =>
                   /\ DOMAIN result[i] = {"id", "success", "error"}
                   /\ ~result[i].success
    /\ pc # "returned" => result = NoValue

C24_Witness ==
  /\ pc = "returned"
  /\ locals.pageIds = <<"p1", "p2", "p1">>
  /\ responses[1].index = 3
  /\ result = <<[id |-> "p1", success |-> FALSE, error |-> "Request failed"],
                [id |-> "p2", success |-> TRUE],
                [id |-> "p1", success |-> TRUE]>>

\* The index of the first response that announces no next page, 0 when
\* there is none yet.
StopIndex ==
  LET stops == {i \in 1..Len(responses) : ~AnnouncesNext(responses[i])}
  IN IF stops = {} THEN 0 ELSE CHOOSE i \in stops : \A j \in stops : i <= j

\* C25: paginateAll returns if and only if a response announces no next page
\* (it ends with an error only when the login or a request fails); it issues
\* at least one request, as many requests as the index of the first such
\* response, and without such a response it goes on requesting, whatever the
\* number of pages already requested.
C25_StopsAtFirstLastPage ==
  /\ [](StopIndex # 0 => Len(requests) = StopIndex)
  /\ [](pc = "returned" => (StopIndex # 0 /\ Len(requests) >= 1))
  /\ [](pc = "raised" => (token = Null \/ Len(requests) = Len(responses) + 1))
  /\ (StopIndex # 0) ~> (pc = "returned")
  /\ (pc = "entered") ~> (Len(requests) >= 1)
  /\ \A k \in 0..(MaxPages - 1) :
       (StopIndex = 0 /\ Len(responses) = k /\ pc \in {"loop", "waiting"})
         ~> (Len(requests) = k + 1)

C25_Witness ==
  /\ pc = "returned"
  /\ StopIndex = 2
  /\ Len(requests) = 2
  /\ result = <<>>

\* The positions in requests of the login requests.
LoginRequests == {i \in 1..Len(requests) : requests[i].endpoint = "/auth/login"}

\* A login has succeeded.
LoggedIn == \E i \in 1..Len(responses) : "token" \in DOMAIN responses[i]

\* An API request is in the log only when the token is set; a call waits for
\* a login only if it saw no token; a token that was set stays set.
TokenGuardsRequests ==
  /\ (\E i \in 1..Len(requests) : requests[i].endpoint # "/auth/login") =>
       (LoggedIn /\ token # Null)
  /\ \A c \in Calls : pc[c] = "login" => locals[c].observed = Null
  /\ LoggedIn => token # Null

\* C26: API requests are issued only after a login set the token, a login is
\* started only by an operation that saw no token, the token once set is
\* never cleared, and whatever the interleaving of the calls at most one
\* login request is issued in the lifetime of the client.
C26_AtMostOneLogin ==
  /\ TokenGuardsRequests
  /\ Cardinality(LoginRequests) <= 1

\* getPage has returned after its subpages fetch failed.
SubpagesFetchFailed ==
  pc = "done" /\ Len(responses) = 2 /\ responses[2] = ErrorBody

\* C27: getPage fetches the subpages after the page, and when that fetch
\* fails it still returns the page: its content is the converted text (a
\* string, empty when the page has no content), the subpages field is
\* omitted and no sentinel is left, as for a page without children.
C27_FailedSubpagesFetchTolerated ==
  /\ pc = "done" =>
       EndpointsRequested = <<"/pages/info", "/pages/sidebar-pages">>
  /\ SubpagesFetchFailed =>
       /\ "content" \in DOMAIN pageResult
       /\ "subpages" \notin DOMAIN pageResult
       /\ input = Null => pageResult.content = ""
       /\ ~includes(pageResult.content, SubpagesToken)
       /\ ~includes(pageResult.content, processNode(Leaf("subpages")))

\* The same for the pages whose converted text holds at most one
\* "{{SUBPAGES}}" and no subpages node: the result is the converted text
\* without the token, what an empty list of children gives.
C27_ToleratedWhenOneSentinel ==
  /\ pc = "info" => EndpointsRequested = <<"/pages/info">>
  /\ pc = "done" =>
       EndpointsRequested = <<"/pages/info", "/pages/sidebar-pages">>
  /\ (/\ SubpagesFetchFailed
      /\ input # Null =>
           /\ CountOf(convertProseMirrorToMarkdown(input), SubpagesToken) <= 1
           /\ ~HasSubpagesNode(input)) =>
       /\ pageResult = filterPage(resolveSubpages(content, <<>>), <<>>)
       /\ "subpages" \notin DOMAIN pageResult
       /\ pageResult.content =
            (IF input = Null THEN ""
             ELSE LET text == convertProseMirrorToMarkdown(input)
                      i == indexOf(text, SubpagesToken)
                  IN IF i = 0 THEN text
                     ELSE SubSeq(text, 1, i - 1)
                            \o SubSeq(text, i + Len(SubpagesToken), Len(text)))
       /\ ~includes(pageResult.content, SubpagesToken)

====
